---- MODULE Spec2Model ----
(***************************************************************************)
(* Location repository of the weather app (src/src/locationStorage.js)     *)
(* over the browser's localStorage with the in-process fallback map, the  *)
(* view state machine (src/src/viewStateManager.js), sign-in and sign-out  *)
(* (auth-location integration), the handlers of the add, edit and delete   *)
(* controls, the launch with its geolocation cache, and the weather cache. *)
(*                                                                         *)
(* JavaScript values are tagged records: a primitive carries a field t,    *)
(* a plain object is a record without a field t, an array is Arr(seq).     *)
(* A string is the sequence of its characters, so that trim() and          *)
(* toLowerCase() are computed, and a message is the sequence of its words. *)
(***************************************************************************)
EXTENDS Integers, Sequences, FiniteSets, TLC

VARIABLES durable, memory, nextId, now, last, viewState, hash, call, dialog,
          clock, cachedLocation, cacheTimestamp, requests, acquisition, boot,
          localStorageAccessed, weatherCache, fetched, inFlight

viewVars == <<viewState, hash, call>>

(* The state of the handlers around the repository and the view *)
appVars == <<dialog, clock, cachedLocation, cacheTimestamp, requests, acquisition,
            boot, localStorageAccessed, weatherCache, fetched, inFlight>>

(* The weather cache, what the last fetch that succeeded for each id      *)
(* since the cache was last cleared brought, and the calls of the fetcher  *)
(* whose promise is pending                                                *)
weatherVars == <<weatherCache, fetched, inFlight>>

(* The state of the geolocation cache and of the launch *)
launchVars == <<clock, cachedLocation, cacheTimestamp, requests, acquisition, boot,
               localStorageAccessed>>

vars == <<durable, memory, nextId, now, last, viewState, hash, call, appVars>>

----------------------------------------------------------------------------
(* Bounds of the model *)

MaxIds == 3
MaxTime == 1
MaxDialogs == 2

----------------------------------------------------------------------------
(* JavaScript values *)

Undefined == [t |-> "undefined"]
Null == [t |-> "null"]
NaN == [t |-> "nan"]
NegZero == [t |-> "negzero"]
Num(n) == [t |-> "number", v |-> n]
Str(s) == [t |-> "string", v |-> s]
Arr(s) == [t |-> "array", v |-> s]
Bool(b) == [t |-> "boolean", v |-> b]

IsObject(x) == "t" \notin DOMAIN x

IsArray(x) == ~IsObject(x) /\ x.t = "array"

TypeOf(x) ==
  IF IsObject(x) THEN "object"
  ELSE CASE x.t \in {"number", "nan", "negzero"} -> "number"
         [] x.t = "string" -> "string"
         [] x.t = "undefined" -> "undefined"
         [] x.t = "boolean" -> "boolean"
         [] OTHER -> "object"

Falsy(x) ==
  /\ ~IsObject(x)
  /\ \/ x.t \in {"undefined", "null", "nan", "negzero"}
     \/ x.t = "number" /\ x.v = 0
     \/ x.t = "string" /\ x.v = <<>>
     \/ x.t = "boolean" /\ ~x.v

Get(o, k) == IF IsObject(o) /\ k \in DOMAIN o THEN o[k] ELSE Undefined

StrictEquals(a, b) ==
  IF IsObject(a) \/ IsObject(b) THEN a = b
  ELSE /\ a.t # "nan"
       /\ \/ a = b
          \/ {a, b} = {NegZero, Num(0)}

LessThan(x, n) ==
  CASE x.t = "number" -> x.v < n
    [] x.t = "negzero" -> 0 < n
    [] OTHER -> FALSE

GreaterThan(x, n) ==
  CASE x.t = "number" -> x.v > n
    [] x.t = "negzero" -> 0 > n
    [] OTHER -> FALSE

Spread(a, b) ==
  IF ~IsObject(b) THEN a
  ELSE [k \in DOMAIN a \cup DOMAIN b |-> IF k \in DOMAIN b THEN b[k] ELSE a[k]]

----------------------------------------------------------------------------
(* Strings *)

Whitespace == {" "}

toLowerCaseChar(c) ==
  CASE c = "A" -> "a"
    [] c = "B" -> "b"
    [] c = "C" -> "c"
    [] OTHER -> c

toLowerCase(s) == [i \in 1..Len(s) |-> toLowerCaseChar(s[i])]

RECURSIVE trimStart(_)
trimStart(s) ==
  IF s # <<>> /\ Head(s) \in Whitespace THEN trimStart(Tail(s)) ELSE s

RECURSIVE trimEnd(_)
trimEnd(s) ==
  IF s # <<>> /\ s[Len(s)] \in Whitespace
  THEN trimEnd(SubSeq(s, 1, Len(s) - 1))
  ELSE s

trim(s) == trimEnd(trimStart(s))

----------------------------------------------------------------------------
(* JSON.parse(JSON.stringify(value)) *)

RECURSIVE JSONRoundTrip(_)
JSONRoundTrip(x) ==
  IF IsObject(x)
  THEN [k \in {j \in DOMAIN x : x[j] # Undefined} |-> JSONRoundTrip(x[k])]
  ELSE CASE x.t = "array" -> Arr([i \in 1..Len(x.v) |-> JSONRoundTrip(x.v[i])])
         [] x.t = "nan" -> Null
         [] x.t = "negzero" -> Num(0)
         [] OTHER -> x

----------------------------------------------------------------------------
(* Messages: a message is the sequence of its words *)

withComma(e) == [e EXCEPT ![Len(e)] = e[Len(e)] \o ","]

RECURSIVE join(_)
join(errors) ==
  IF errors = <<>> THEN <<>>
  ELSE IF Len(errors) = 1 THEN errors[1]
  ELSE withComma(errors[1]) \o join(Tail(errors))

Contains(message, word) == \E i \in 1..Len(message) : message[i] = word

----------------------------------------------------------------------------
(* The two stores: localStorage (holding JSON text, modelled by the value  *)
(* the text parses to; Null when the key has no item) and the in-process   *)
(* fallback map (holding the object itself; Undefined when the key is not  *)
(* in the map).                                                            *)

Emails == {"u@x", "v@x"}

(* getStorageKey that leaves the email out *)
getStorageKeyOfAll(userEmail) == "weatherAppLocations_"

getStorageKey(userEmail) == "weatherAppLocations_" \o userEmail

Keys == {getStorageKey(e) : e \in Emails}

(* What localStorage.setItem does on a call: it stores the text          *)
(* (Undefined: nothing thrown) or it throws one of these error objects.    *)
QuotaExceededError == [name |-> Str(<<"QuotaExceededError">>), code |-> Num(22)]
LegacyQuotaError == [name |-> Str(<<"Error">>), code |-> Num(22)]
SecurityError == [name |-> Str(<<"SecurityError">>), code |-> Num(18)]

SetItemErrors == {QuotaExceededError, LegacyQuotaError, SecurityError}

IsCallable(x) == ~IsObject(x) /\ x.t = "function"

TypeErrorMessage == <<"error", "is", "not", "a", "function">>

(* handleStorageQuotaError(error): its first statement calls the parameter *)
(* error (which shadows nothing callable: the logger is imported as        *)
(* logError), so the call throws a TypeError unless error is a function.   *)
handleStorageQuotaError(error) ==
  IF IsCallable(error)
  THEN [threw |-> FALSE,
        message |-> <<"Storage", "limit", "reached.", "Some", "locations",
                      "may", "not", "be", "saved.">>]
  ELSE [threw |-> TRUE, message |-> TypeErrorMessage]

(* saveToStorage(key, value): the stores after the call, and whether the   *)
(* call threw (with the message of the error thrown).                      *)
saveToStorage(dur, mem, key, value, setItemError) ==
  IF setItemError = Undefined
  THEN [durable |-> [dur EXCEPT ![key] = JSONRoundTrip(value)],
        memory |-> mem, threw |-> FALSE, message |-> <<>>]
  ELSE
    LET quota == \/ StrictEquals(Get(setItemError, "name"), Str(<<"QuotaExceededError">>))
                 \/ StrictEquals(Get(setItemError, "code"), Num(22))
        handled == IF quota THEN handleStorageQuotaError(setItemError)
                   ELSE [threw |-> FALSE, message |-> <<>>]
    IN IF handled.threw
       THEN [durable |-> dur, memory |-> mem,
             threw |-> TRUE, message |-> handled.message]
       ELSE [durable |-> dur, memory |-> [mem EXCEPT ![key] = value],
             threw |-> FALSE, message |-> <<>>]

(* getFromStorage whose catch block returns null *)
getFromStorageWithoutFallback(dur, mem, key, readFails) == IF ~readFails THEN dur[key] ELSE Null

(* Text under a key that JSON.parse rejects *)
Unparseable == [t |-> "unparseable"]

(* getFromStorage(key); readFails says that localStorage.getItem or         *)
(* JSON.parse throws.  dur[key] is the parsed item, null when there is none *)
getFromStorage(dur, mem, key, readFails) ==
  IF ~readFails
  THEN dur[key]
  ELSE IF Falsy(mem[key]) THEN Null ELSE mem[key]

----------------------------------------------------------------------------
(* Validation and duplicate detection *)

validateLocation(location) ==
  IF Falsy(location)
  THEN [valid |-> FALSE, errors |-> << <<"Location", "object", "is", "required">> >>]
  ELSE
    LET name == Get(location, "name")
        coordinates == Get(location, "coordinates")
        latitude == Get(coordinates, "latitude")
        longitude == Get(coordinates, "longitude")
        query == Get(location, "query")
        nameErrors ==
          IF Falsy(name) \/ TypeOf(name) # "string" \/ trim(name.v) = <<>>
          THEN << <<"Location", "name", "is", "required">> >> ELSE <<>>
        coordinateErrors ==
          IF Falsy(coordinates)
          THEN << <<"Location", "coordinates", "are", "required">> >>
          ELSE (IF \/ TypeOf(latitude) # "number"
                   \/ LessThan(latitude, -90)
                   \/ GreaterThan(latitude, 90)
                THEN << <<"Valid", "latitude", "is", "required", "(-90", "to", "90)">> >>
                ELSE <<>>)
               \o
               (IF \/ TypeOf(longitude) # "number"
                   \/ LessThan(longitude, -180)
                   \/ GreaterThan(longitude, 180)
                THEN << <<"Valid", "longitude", "is", "required", "(-180", "to", "180)">> >>
                ELSE <<>>)
        queryErrors ==
          IF Falsy(query) \/ TypeOf(query) # "string"
          THEN << <<"Location", "query", "is", "required">> >> ELSE <<>>
        errors == nameErrors \o coordinateErrors \o queryErrors
    IN [valid |-> errors = <<>>, errors |-> errors]

(* normalizeName without the trim() *)
normalizeNameWithoutTrim(name) == toLowerCase(name.v)

normalizeName(name) == trim(toLowerCase(name.v))

(* getLocations returning the newest location first *)
getLocationsNewestFirst(dur, mem, userEmail, readFails) == LET locations == IF Falsy(dur[getStorageKey(userEmail)]) \/ ~IsArray(Get(dur[getStorageKey(userEmail)], "locations")) THEN <<>> ELSE dur[getStorageKey(userEmail)].locations.v IN [i \in 1..Len(locations) |-> locations[Len(locations) + 1 - i]]

(* getLocations(userEmail): the array data.locations, or a new empty array *)
getLocations(dur, mem, userEmail, readFails) ==
  LET data == getFromStorage(dur, mem, getStorageKey(userEmail), readFails)
  IN IF Falsy(data) \/ ~IsArray(Get(data, "locations"))
     THEN <<>>
     ELSE data.locations.v

(* The array getLocations returns is the very array held by the fallback   *)
(* map (not a copy) when the read fell back to the map and found one.      *)
aliasesMemory(mem, userEmail, readFails) ==
  LET data == mem[getStorageKey(userEmail)]
  IN readFails /\ ~Falsy(data) /\ IsArray(Get(data, "locations"))

(* locationExists comparing the names as written *)
locationExistsExactName(dur, mem, userEmail, locationName, readFails) ==
  LET locations == getLocations(dur, mem, userEmail, readFails)
  IN \E i \in 1..Len(locations) : locations[i].name = locationName

locationExists(dur, mem, userEmail, locationName, readFails) ==
  LET locations == getLocations(dur, mem, userEmail, readFails)
      normalized == normalizeName(locationName)
  IN \E i \in 1..Len(locations) : normalizeName(locations[i].name) = normalized

----------------------------------------------------------------------------
(* The repository operations.  Each gives the result returned to the       *)
(* caller and the two stores after the call.  uuid is the value of         *)
(* crypto.randomUUID(), time the reading of the clock, the ...ReadFails    *)
(* inputs say whether each localStorage.getItem of the call throws, and    *)
(* setItemError is what localStorage.setItem does.                         *)

toISOString(time) == Str(<<"T", ToString(time)>>)

randomUUID(n) == Str(<<"#", ToString(n)>>)

(* An envelope holding only the record written last *)
envelopeOfLast(locations) == [locations |-> Arr(IF locations = <<>> THEN <<>> ELSE <<locations[Len(locations)]>>), version |-> Num(1)]

envelope(locations) == [locations |-> Arr(locations), version |-> Num(1)]

(* An in-place change of the array getLocations returned: it is seen in    *)
(* the fallback map at once when the array is the map's own.               *)
mutateInPlace(mem, userEmail, aliased, locations) ==
  IF aliased
  THEN [mem EXCEPT ![getStorageKey(userEmail)] =
          [@ EXCEPT !.locations = Arr(locations)]]
  ELSE mem

(* An early return: nothing was written *)
failure(dur, mem, error) ==
  [result |-> [success |-> FALSE, error |-> error],
   durable |-> dur, memory |-> mem, minted |-> FALSE,
   putCalled |-> FALSE, putValue |-> Null, putThrew |-> FALSE]

(* The closing try { saveToStorage(key, data); return payload }            *)
(* catch (error) { return { success: false, error: error.message } }       *)
persist(dur, mem, userEmail, locations, setItemError, payload, minted) ==
  LET put == saveToStorage(dur, mem, getStorageKey(userEmail),
                           envelope(locations), setItemError)
  IN [result |-> IF put.threw
                 THEN [success |-> FALSE, error |-> put.message]
                 ELSE payload,
      durable |-> put.durable, memory |-> put.memory, minted |-> minted,
      putCalled |-> TRUE, putValue |-> envelope(locations), putThrew |-> put.threw]

(* createLocation that gives every record the same id *)
createLocationWithOneId(location, uuid, time, later) == [id |-> randomUUID(1), name |-> location.name, coordinates |-> [latitude |-> Get(location.coordinates, "latitude"), longitude |-> Get(location.coordinates, "longitude")], query |-> location.query, addedAt |-> toISOString(time), updatedAt |-> toISOString(later)]

(* createLocation with latitude and longitude exchanged *)
createLocationSwapped(location, uuid, time, later) ==
  [id |-> uuid,
   name |-> location.name,
   coordinates |-> [latitude |-> Get(location.coordinates, "longitude"),
                    longitude |-> Get(location.coordinates, "latitude")],
   query |-> location.query,
   addedAt |-> toISOString(time),
   updatedAt |-> toISOString(later)]

(* newLocation; addedAt and updatedAt are two readings of the clock, the    *)
(* second one taken at or after the first                                  *)
createLocation(location, uuid, time, later) ==
  [id |-> uuid,
   name |-> location.name,
   coordinates |-> [latitude |-> Get(location.coordinates, "latitude"),
                    longitude |-> Get(location.coordinates, "longitude")],
   query |-> location.query,
   addedAt |-> toISOString(time),
   updatedAt |-> toISOString(later)]

saveLocation(dur, mem, userEmail, location, uuid, time, later, existsReadFails, listReadFails, setItemError) ==
  LET validation == validateLocation(location)
  IN IF ~validation.valid
     THEN failure(dur, mem, <<"Invalid", "location", "data:">> \o join(validation.errors))
     ELSE IF locationExists(dur, mem, userEmail, location.name, existsReadFails)
     THEN failure(dur, mem, <<"This", "location", "is", "already", "in", "your", "favorites">>)
     ELSE
       LET locations == getLocations(dur, mem, userEmail, listReadFails)
           aliased == aliasesMemory(mem, userEmail, listReadFails)
           newLocation == createLocation(location, uuid, time, later)
           pushed == Append(locations, newLocation)
       IN persist(dur, mutateInPlace(mem, userEmail, aliased, pushed), userEmail,
                  pushed, setItemError,
                  [success |-> TRUE, location |-> newLocation], TRUE)

(* findIndex that answers the first index when no record has the id *)
findIndexOrFirst(locations, locationId) ==
  LET hits == {i \in 1..Len(locations) : StrictEquals(Get(locations[i], "id"), locationId)}
  IN IF hits = {} THEN (IF locations = <<>> THEN -1 ELSE 1)
     ELSE CHOOSE i \in hits : \A j \in hits : i <= j

findIndex(locations, locationId) ==
  LET hits == {i \in 1..Len(locations) : StrictEquals(Get(locations[i], "id"), locationId)}
  IN IF hits = {} THEN -1
     ELSE CHOOSE i \in hits : \A j \in hits : i <= j

(* mergeUpdates that lets updates overwrite coordinates and addedAt *)
mergeUpdatesUnguarded(existing, locationId, updates, time) ==
  Spread(Spread(existing, updates),
         [id |-> locationId, updatedAt |-> toISOString(time)])

(* mergeUpdates with the two spreads in the other order *)
mergeUpdatesReversed(existing, locationId, updates, time) ==
  Spread(Spread(IF IsObject(updates) THEN updates ELSE <<>>, existing),
         [id |-> locationId,
          coordinates |-> Get(existing, "coordinates"),
          addedAt |-> Get(existing, "addedAt"),
          updatedAt |-> toISOString(time)])

(* { ...locations[index], ...updates, id, coordinates, addedAt, updatedAt } *)
mergeUpdates(existing, locationId, updates, time) ==
  Spread(Spread(existing, updates),
         [id |-> locationId,
          coordinates |-> Get(existing, "coordinates"),
          addedAt |-> Get(existing, "addedAt"),
          updatedAt |-> toISOString(time)])

(* duplicateName that does not leave out the record being updated *)
duplicateNameAnyIndex(locations, index, name) ==
  LET normalized == normalizeName(name)
  IN \E i \in 1..Len(locations) : normalizeName(locations[i].name) = normalized

(* locations.some((loc, i) => i !== index && normalizeName(loc.name) === normalized) *)
duplicateName(locations, index, name) ==
  LET normalized == normalizeName(name)
  IN \E i \in 1..Len(locations) :
       i # index /\ normalizeName(locations[i].name) = normalized

updateLocation(dur, mem, userEmail, locationId, updates, time, listReadFails, setItemError) ==
  LET locations == getLocations(dur, mem, userEmail, listReadFails)
      aliased == aliasesMemory(mem, userEmail, listReadFails)
      index == findIndex(locations, locationId)
  IN IF index = -1
     THEN failure(dur, mem, <<"Location", "not", "found">>)
     ELSE
       LET updatedLocation == mergeUpdates(locations[index], locationId, updates, time)
           validation == validateLocation(updatedLocation)
       IN IF ~validation.valid
          THEN failure(dur, mem, <<"Invalid", "location", "data:">> \o join(validation.errors))
          ELSE
            IF duplicateName(locations, index, updatedLocation.name)
            THEN failure(dur, mem, <<"A", "location", "with", "this", "name",
                                     "already", "exists">>)
            ELSE
              LET replaced == [locations EXCEPT ![index] = updatedLocation]
              IN persist(dur, mutateInPlace(mem, userEmail, aliased, replaced),
                         userEmail, replaced, setItemError,
                         [success |-> TRUE, location |-> updatedLocation], FALSE)

(* locations.splice(index): everything from index on is removed *)
spliceToEnd(locations, index) == SubSeq(locations, 1, index - 1)

(* locations.splice(index, 1) *)
splice(locations, index) ==
  SubSeq(locations, 1, index - 1) \o SubSeq(locations, index + 1, Len(locations))

deleteLocation(dur, mem, userEmail, locationId, listReadFails, setItemError) ==
  LET locations == getLocations(dur, mem, userEmail, listReadFails)
      aliased == aliasesMemory(mem, userEmail, listReadFails)
      index == findIndex(locations, locationId)
  IN IF index = -1
     THEN failure(dur, mem, <<"Location", "not", "found">>)
     ELSE
       LET spliced == splice(locations, index)
       IN persist(dur, mutateInPlace(mem, userEmail, aliased, spliced),
                  userEmail, spliced, setItemError, [success |-> TRUE], FALSE)

----------------------------------------------------------------------------
(* Inputs of the operations *)

Location(name, latitude, longitude, query) ==
  [name |-> name,
   coordinates |-> [latitude |-> latitude, longitude |-> longitude],
   query |-> query]

Candidates ==
  { Location(Str(<<"a">>), Num(45), Num(-120), Str(<<"q">>)),
    Location(Str(<<" ", "A", " ">>), Num(90), Num(180), Str(<<"q">>)),
    Location(Str(<<"b">>), Num(-90), NegZero, Str(<<" ">>)),
    Location(Str(<<"c">>), NaN, Num(0), Str(<<"q">>)),
    Location(Str(<<"A">>), Num(91), Num(-181), Str(<<>>)),
    Null }

Updates ==
  { [name |-> Str(<<" ", "b", " ">>)],
    [name |-> Str(<<" ">>)],
    [name |-> Str(<<" ", "b", " ">>),
     id |-> Str(<<"#", "9">>),
     coordinates |-> [latitude |-> Num(1), longitude |-> Num(1)],
     addedAt |-> Str(<<"T", "9">>),
     updatedAt |-> Str(<<"T", "9">>),
     query |-> Str(<<"z">>),
     note |-> Str(<<"n">>)] }

(* The healthy specification follows one user *)
Users == {"u@x"}

----------------------------------------------------------------------------
(* State: the two stores, the next value of the id generator, the clock,   *)
(* and the call that has just returned (its inputs, its result and the     *)
(* stores before it) until the caller has taken the result.                *)

(* The ids update and delete are called with: those of the user's stored   *)
(* records, and one that no record has.                                    *)
storedIds(value) ==
  IF Falsy(value) \/ ~IsArray(Get(value, "locations")) THEN {}
  ELSE {value.locations.v[i].id : i \in 1..Len(value.locations.v)}

LocationIdsOf(e) ==
  storedIds(durable[getStorageKey(e)]) \cup storedIds(memory[getStorageKey(e)])
    \cup {Str(<<"#", "0">>)}

(* The document holds no confirmation dialog and no edit form *)
NoDialog == <<>>

(* The ids of the locations whose weather is fetched *)
WeatherIds == { Str(<<"#", "1">>), Str(<<"#", "2">>) }

(* bootstrap has not been called *)
NotLaunched == [pc |-> "idle"]

(* No position has been obtained since the cache was last empty *)
NeverAcquired == [any |-> FALSE]

(* Date.now() reads a positive number of milliseconds *)
InitApp ==
  /\ dialog = NoDialog
  /\ clock = 1
  /\ cachedLocation = Null
  /\ cacheTimestamp = Null
  /\ requests = {}
  /\ acquisition = NeverAcquired
  /\ boot = NotLaunched
  /\ localStorageAccessed = FALSE
  /\ weatherCache = [i \in WeatherIds |-> Undefined]
  /\ fetched = [i \in WeatherIds |-> [any |-> FALSE]]
  /\ inFlight = <<>>

Init ==
  /\ InitApp
  /\ durable = [k \in Keys |-> Null]
  /\ memory = [k \in Keys |-> Undefined]
  /\ nextId = 1
  /\ now = 0
  /\ last = [op |-> "none"]
  /\ viewState = [currentView |-> "detail", selectedLocationId |-> Null,
                  user |-> [email |-> Null, isAnonymous |-> TRUE]]
  /\ hash = Str(<<>>)
  /\ call = [op |-> "none"]

Record(op, userEmail, input, out, existsReadFails, listReadFails, setItemError) ==
  [op |-> op, userEmail |-> userEmail, input |-> input,
   result |-> out.result,
   putCalled |-> out.putCalled, putValue |-> out.putValue, putThrew |-> out.putThrew,
   existsReadFails |-> existsReadFails, listReadFails |-> listReadFails,
   setItemError |-> setItemError,
   before |-> [durable |-> durable, memory |-> memory],
   time |-> now]

(* saveLocation(userEmail, location); later is what the clock reads when   *)
(* it is read the second time, for updatedAt                               *)
SaveLocation(userEmail, location, later, existsReadFails, listReadFails, setItemError) ==
  /\ last.op = "none"
  /\ nextId <= MaxIds
  /\ later \in now..MaxTime
  /\ LET out == saveLocation(durable, memory, userEmail, location,
                             randomUUID(nextId), now, later,
                             existsReadFails, listReadFails, setItemError)
     IN /\ durable' = out.durable
        /\ memory' = out.memory
        /\ nextId' = IF out.minted THEN nextId + 1 ELSE nextId
        /\ now' = IF out.minted THEN later ELSE now
        /\ last' = Record("save", userEmail, location, out,
                          existsReadFails, listReadFails, setItemError)
  /\ UNCHANGED <<viewVars, appVars>>

UpdateLocation(userEmail, locationId, updates, listReadFails, setItemError) ==
  /\ last.op = "none"
  /\ LET out == updateLocation(durable, memory, userEmail, locationId, updates,
                               now, listReadFails, setItemError)
     IN /\ durable' = out.durable
        /\ memory' = out.memory
        /\ last' = Record("update", userEmail,
                          [locationId |-> locationId, updates |-> updates], out,
                          FALSE, listReadFails, setItemError)
  /\ UNCHANGED <<nextId, now, viewVars, appVars>>

DeleteLocation(userEmail, locationId, listReadFails, setItemError) ==
  /\ last.op = "none"
  /\ LET out == deleteLocation(durable, memory, userEmail, locationId,
                               listReadFails, setItemError)
     IN /\ durable' = out.durable
        /\ memory' = out.memory
        /\ last' = Record("delete", userEmail, [locationId |-> locationId], out,
                          FALSE, listReadFails, setItemError)
  /\ UNCHANGED <<nextId, now, viewVars, appVars>>

(* clearInMemoryStorage() *)
ClearInMemoryStorage ==
  /\ last.op = "none"
  /\ memory' = [k \in Keys |-> Undefined]
  /\ UNCHANGED <<durable, nextId, now, last, viewVars, appVars>>

(* Time passes between calls *)
Tick ==
  /\ last.op = "none"
  /\ now < MaxTime
  /\ now' = now + 1
  /\ UNCHANGED <<durable, memory, nextId, last, viewVars, appVars>>

(* The caller has taken the result of the call; the next call starts      *)
(* after that (one event loop, every call runs to completion).             *)
Return ==
  /\ last.op # "none"
  /\ last' = [op |-> "none"]
  /\ UNCHANGED <<durable, memory, nextId, now, viewVars, appVars>>

(* The durable store never fails *)
Next ==
  \/ \E e \in Users, c \in Candidates, t \in 0..MaxTime : SaveLocation(e, c, t, FALSE, FALSE, Undefined)
  \/ \E e \in Users : \E i \in LocationIdsOf(e), u \in Updates :
       UpdateLocation(e, i, u, FALSE, Undefined)
  \/ \E e \in Users : \E i \in LocationIdsOf(e) : DeleteLocation(e, i, FALSE, Undefined)
  \/ Tick
  \/ Return

Spec == Init /\ [][Next]_vars

(* Each read and each write of the durable store may fail.  The clock      *)
(* stands still here: both readings of a save are the same.                *)
FaultyCandidates ==
  { Location(Str(<<"a">>), Num(45), Num(-120), Str(<<"q">>)),
    Location(Str(<<" ", "A", " ">>), Num(90), Num(180), Str(<<"q">>)),
    Location(Str(<<" ">>), Num(91), Num(-181), Str(<<>>)) }

FaultyUpdates == { [name |-> Str(<<" ", "b", " ">>)] }

SetItemOutcomes == SetItemErrors \cup {Undefined}

NextFaulty ==
  \/ \E e \in Users, c \in FaultyCandidates, r1, r2 \in BOOLEAN, w \in SetItemOutcomes :
       SaveLocation(e, c, now, r1, r2, w)
  \/ \E e \in Users : \E i \in LocationIdsOf(e), u \in FaultyUpdates, r \in BOOLEAN,
        w \in SetItemOutcomes : UpdateLocation(e, i, u, r, w)
  \/ \E e \in Users : \E i \in LocationIdsOf(e), r \in BOOLEAN, w \in SetItemOutcomes :
       DeleteLocation(e, i, r, w)
  \/ ClearInMemoryStorage
  \/ Return

SpecFaulty == Init /\ [][NextFaulty]_vars

(* Two users of one browser.  The second one has saved a location, and a   *)
(* second location while the durable store refused the write, so that      *)
(* collection is held by the durable store and by the fallback map         *)
OtherUsersStores ==
  LET first == saveLocation([k \in Keys |-> Null], [k \in Keys |-> Undefined], "v@x",
                            Location(Str(<<"a">>), Num(45), Num(-120), Str(<<"q">>)),
                            randomUUID(MaxIds + 1), 0, 0, FALSE, FALSE, Undefined)
  IN saveLocation(first.durable, first.memory, "v@x",
                  Location(Str(<<"b">>), Num(1), Num(1), Str(<<"q">>)),
                  randomUUID(MaxIds + 2), 0, 0, FALSE, FALSE, SecurityError)

InitPartition ==
  /\ InitApp
  /\ durable = OtherUsersStores.durable
  /\ memory = OtherUsersStores.memory
  /\ nextId = 1
  /\ now = 0
  /\ last = [op |-> "none"]
  /\ viewState = [currentView |-> "detail", selectedLocationId |-> Null,
                  user |-> [email |-> Null, isAnonymous |-> TRUE]]
  /\ hash = Str(<<>>)
  /\ call = [op |-> "none"]

(* The ids a call may name: the first user's and the second user's *)
PartitionIds == { randomUUID(n) : n \in 1..(MaxIds + 2) }

PartitionOutcomes == { Undefined, SecurityError, QuotaExceededError }

(* The first user works while the durable store may fail on any call; the  *)
(* clock stands still                                                      *)
NextPartition ==
  \/ \E e \in Users, c \in FaultyCandidates, r \in BOOLEAN, w \in PartitionOutcomes : SaveLocation(e, c, now, r, r, w)
  \/ \E e \in Users, i \in PartitionIds, u \in FaultyUpdates, r \in BOOLEAN, w \in PartitionOutcomes : UpdateLocation(e, i, u, r, w)
  \/ \E e \in Users, i \in PartitionIds, r \in BOOLEAN, w \in PartitionOutcomes : DeleteLocation(e, i, r, w)
  \/ Return

SpecPartition == InitPartition /\ [][NextPartition]_vars

(* How the durable store behaves during one saveLocation call: whether    *)
(* the read of locationExists fails, whether the read of getLocations      *)
(* fails, and what setItem throws                                          *)
StoreBehaviours ==
  [existsReadFails : BOOLEAN, listReadFails : BOOLEAN, setItemError : {Undefined, SecurityError}]

(* saveLocation(userEmail, location) called twice in a row *)
SaveLocationTwice(userEmail, location, first, second) ==
  /\ last.op = "none"
  /\ nextId + 1 <= MaxIds
  /\ \E later \in now..MaxTime, latest \in now..MaxTime :
     later <= latest /\
     LET one == saveLocation(durable, memory, userEmail, location, randomUUID(nextId),
                             now, later,
                             first.existsReadFails, first.listReadFails, first.setItemError)
         nextUuid == IF one.minted THEN nextId + 1 ELSE nextId
         between == IF one.minted THEN later ELSE now
         two == saveLocation(one.durable, one.memory, userEmail, location,
                             randomUUID(nextUuid), between, latest,
                             second.existsReadFails, second.listReadFails,
                             second.setItemError)
     IN /\ durable' = two.durable
        /\ memory' = two.memory
        /\ nextId' = IF two.minted THEN nextUuid + 1 ELSE nextUuid
        /\ now' = IF two.minted THEN latest ELSE between
        /\ last' = [op |-> "saveTwice", userEmail |-> userEmail, input |-> location,
                    behaviours |-> <<first, second>>,
                    results |-> <<one.result, two.result>>,
                    between |-> [durable |-> one.durable, memory |-> one.memory],
                    before |-> [durable |-> durable, memory |-> memory]]
  /\ UNCHANGED <<viewVars, appVars>>

(* Reads and writes of the durable store fail or work, each on its own *)
NextFailures ==
  \/ \E e \in Users, c \in FaultyCandidates, b \in StoreBehaviours , t \in 0..MaxTime : SaveLocation(e, c, t, b.existsReadFails, b.listReadFails, b.setItemError)
  \/ \E e \in Users, c \in FaultyCandidates, b1 \in StoreBehaviours, b2 \in StoreBehaviours : SaveLocationTwice(e, c, b1, b2)
  \/ \E e \in Users, i \in { randomUUID(n) : n \in 1..MaxIds }, r \in BOOLEAN, w \in {Undefined, SecurityError} : DeleteLocation(e, i, r, w)
  \/ Return

SpecFailures == Init /\ [][NextFailures]_vars

(* Every read and every write of the durable store throws an error that    *)
(* is not a quota error                                                    *)
NextUnavailable ==
  \/ \E e \in Users, c \in Candidates, t \in 0..MaxTime : SaveLocation(e, c, t, TRUE, TRUE, SecurityError)
  \/ \E e \in Users : \E i \in LocationIdsOf(e), u \in Updates :
       UpdateLocation(e, i, u, TRUE, SecurityError)
  \/ \E e \in Users : \E i \in LocationIdsOf(e) : DeleteLocation(e, i, TRUE, SecurityError)
  \/ Tick
  \/ Return

SpecUnavailable == Init /\ [][NextUnavailable]_vars

(* getLocations(userEmail) called on its own *)
GetLocations(userEmail, readFails) ==
  /\ last.op = "none"
  /\ last' = Record("list", userEmail, [userEmail |-> userEmail],
                    [result |-> Arr(getLocations(durable, memory, userEmail, readFails)),
                     putCalled |-> FALSE, putValue |-> Undefined, putThrew |-> FALSE],
                    FALSE, readFails, Undefined)
  /\ UNCHANGED <<durable, memory, nextId, now, viewVars, appVars>>

(* Items this module did not write: left by other code or by an earlier    *)
(* version under the same key                                              *)
ForeignPayloads ==
  { Unparseable,
    Num(0),
    Num(5),
    [version |-> Num(1)],
    [locations |-> Null, version |-> Num(1)],
    [locations |-> Str(<<"x">>), version |-> Num(1)],
    [locations |-> [length |-> Num(0)], version |-> Num(1)] }

ForeignWrite(userEmail, payload) ==
  /\ last.op = "none"
  /\ durable' = [durable EXCEPT ![getStorageKey(userEmail)] = payload]
  /\ UNCHANGED <<memory, nextId, now, last, viewVars, appVars>>

(* JSON.parse throws on the item stored for the user *)
ParseThrows(userEmail) == durable[getStorageKey(userEmail)] = Unparseable

(* localStorage works, and may hold items this module did not write *)
NextForeign ==
  \/ \E e \in Users, c \in FaultyCandidates :
       SaveLocation(e, c, now, ParseThrows(e), ParseThrows(e), Undefined)
  \/ \E e \in Users : \E i \in LocationIdsOf(e), u \in FaultyUpdates :
       UpdateLocation(e, i, u, ParseThrows(e), Undefined)
  \/ \E e \in Users : \E i \in LocationIdsOf(e) :
       DeleteLocation(e, i, ParseThrows(e), Undefined)
  \/ \E e \in Users : GetLocations(e, ParseThrows(e))
  \/ \E e \in Users, p \in ForeignPayloads : ForeignWrite(e, p)
  \/ Return

SpecForeign == Init /\ [][NextForeign]_vars

----------------------------------------------------------------------------
(* View state (viewStateManager.js) and sign-in (auth-location             *)
(* integration).  A view is "list" or "detail"; a fragment is a string     *)
(* whose first part is its prefix and whose other parts are the            *)
(* characters of the location id.                                          *)

MaxCount == 3

Function == [t |-> "function"]

InitialViewState ==
  [currentView |-> "detail", selectedLocationId |-> Null,
   user |-> [email |-> Null, isAnonymous |-> TRUE]]

NoFragment == Str(<<>>)

ListFragment == Str(<<"#locations">>)

LocationPrefix == "#location/"

(* `${x}` *)
templateString(x) ==
  CASE x.t = "string" -> x.v
    [] x.t = "number" -> <<ToString(x.v)>>
    [] OTHER -> <<x.t>>

startsWith(s, prefix) == Len(s.v) >= 1 /\ s.v[1] = prefix

(* s.replace(prefix, '') for an s that starts with the prefix *)
replacePrefix(s, prefix) == Str(Tail(s.v))

setUserContext(vs, user) ==
  [vs EXCEPT !.user =
     [email |-> IF Falsy(Get(user, "email")) THEN Null ELSE Get(user, "email"),
      isAnonymous |-> ~StrictEquals(Get(user, "isAnonymous"), Bool(FALSE))]]

(* ldClient ? ldClient.variation('save-locations', false) : false, where   *)
(* a client is the value its variation call returns                        *)
canSaveLocations(ldClient) ==
  IF Falsy(ldClient) THEN Bool(FALSE) ELSE ldClient.variation

(* determineView without the test of user.isAnonymous *)
determineViewIgnoringUser(user, locationCount, ldClient) == IF ~Falsy(canSaveLocations(ldClient)) /\ locationCount >= 2 THEN "list" ELSE "detail"

determineView(user, locationCount, ldClient) ==
  IF Falsy(canSaveLocations(ldClient)) THEN "detail"
  ELSE IF ~Falsy(Get(user, "isAnonymous")) THEN "detail"
  ELSE IF locationCount >= 2 THEN "list"
  ELSE "detail"

(* shouldShowBackButton without the test of locationCount *)
shouldShowBackButtonAnyCount(currentView, locationCount) == currentView = "detail"

shouldShowBackButton(currentView, locationCount) ==
  currentView = "detail" /\ locationCount >= 2

(* The fragment window.location.hash holds after updateURLState *)
updateURLState(view, locationId) ==
  IF view = "list" THEN ListFragment
  ELSE IF view = "detail" /\ ~Falsy(locationId)
       THEN Str(<<LocationPrefix>> \o templateString(locationId))
       ELSE NoFragment

(* The calls a callback receives: none unless it is a function *)
invoke(callback, args) ==
  IF ~Falsy(callback) /\ IsCallable(callback) THEN <<args>> ELSE <<>>

(* if (callback) callback(args) *)
invokeIfTruthy(callback, args) == IF ~Falsy(callback) THEN <<args>> ELSE <<>>

(* A return without announcement and without a call of a callback *)
Silent(vs, h) == [viewState |-> vs, hash |-> h, announced |-> <<>>, rendered |-> <<>>]

(* transitionToListView without the reset of selectedLocationId *)
transitionToListViewKeepingSelection(vs, h, renderCallback) == [viewState |-> [vs EXCEPT !.currentView = "list"], hash |-> updateURLState("list", Null), announced |-> <<"Showing list of saved locations">>, rendered |-> invoke(renderCallback, <<>>)]

transitionToListView(vs, h, renderCallback) ==
  [viewState |-> [vs EXCEPT !.currentView = "list", !.selectedLocationId = Null],
   hash |-> updateURLState("list", Null),
   announced |-> <<"Showing list of saved locations">>,
   rendered |-> invoke(renderCallback, <<>>)]

transitionToDetailView(vs, h, locationId, renderCallback) ==
  [viewState |-> [vs EXCEPT !.currentView = "detail", !.selectedLocationId = locationId],
   hash |-> updateURLState("detail", locationId),
   announced |-> <<"Showing detailed weather view">>,
   rendered |-> invoke(renderCallback, <<locationId>>)]

(* handleBackNavigation that leaves the selection as it is *)
handleBackNavigationKeepingSelection(vs, h, renderCallback) == IF vs.currentView = "detail" THEN [viewState |-> [vs EXCEPT !.currentView = "list"], hash |-> updateURLState("list", Null), announced |-> <<"Showing list of saved locations">>, rendered |-> invoke(renderCallback, <<>>)] ELSE Silent(vs, h)

handleBackNavigation(vs, h, renderCallback) ==
  IF vs.currentView = "detail" THEN transitionToListView(vs, h, renderCallback)
  ELSE Silent(vs, h)

(* handleCardClick without the test of currentView *)
handleCardClickUnguarded(vs, h, locationId, renderCallback) == transitionToDetailView(vs, h, locationId, renderCallback)

handleCardClick(vs, h, locationId, renderCallback) ==
  IF vs.currentView = "list" THEN transitionToDetailView(vs, h, locationId, renderCallback)
  ELSE Silent(vs, h)

(* A listener that knows the list fragment only and keeps the selection *)
popstateKeepsSelection(vs, h, listViewCallback, detailViewCallback) == IF h = ListFragment THEN [viewState |-> [vs EXCEPT !.currentView = "list"], hash |-> h, announced |-> <<>>, rendered |-> invoke(listViewCallback, <<>>)] ELSE Silent(vs, h)

(* The popstate listener of setupHistoryNavigation, run when the browser   *)
(* shows fragment h                                                        *)
popstate(vs, h, listViewCallback, detailViewCallback) ==
  IF h = ListFragment
  THEN [viewState |-> [vs EXCEPT !.currentView = "list", !.selectedLocationId = Null],
        hash |-> h, announced |-> <<>>,
        rendered |-> invokeIfTruthy(listViewCallback, <<>>)]
  ELSE IF startsWith(h, LocationPrefix)
  THEN LET locationId == replacePrefix(h, LocationPrefix)
       IN [viewState |-> [vs EXCEPT !.currentView = "detail",
                                    !.selectedLocationId = locationId],
           hash |-> h, announced |-> <<>>,
           rendered |-> invokeIfTruthy(detailViewCallback, <<locationId>>)]
  ELSE Silent(vs, h)

resetViewState(vs, h) ==
  [viewState |-> InitialViewState, hash |-> NoFragment, announced |-> <<>>,
   rendered |-> <<>>]

isAnonymousUser(context) ==
  Falsy(context) \/ ~Falsy(Get(context, "anonymous")) \/ Falsy(Get(context, "email"))

(* shouldShowLocationManagementUI without the test of the identity *)
shouldShowLocationManagementUIForAnyone(context, ldClient) == ~Falsy(canSaveLocations(ldClient))

shouldShowLocationManagementUI(context, ldClient) ==
  IF isAnonymousUser(context) THEN FALSE
  ELSE IF Falsy(canSaveLocations(ldClient)) THEN FALSE
  ELSE TRUE

(* The user a sign-in email names in the repository *)
userEmailOf(email) == email.v[1]

(* loadLocations that finds nothing *)
loadLocationsOfNobody(dur, mem, userEmail, readFails) == <<>>

loadLocations(dur, mem, userEmail, readFails) == getLocations(dur, mem, userEmail, readFails)

(* handleLogin(context, ldClient, onLoginComplete): its first statement    *)
(* reads context.email, which throws when context is null or undefined     *)
(* handleLogin that also shows the view it returns *)
handleLoginShowingView(vs, h, dur, mem, context, ldClient, onLoginComplete, readFails) == IF ~IsObject(context) /\ context.t \in {"null", "undefined"} THEN [viewState |-> vs, hash |-> h, threw |-> TRUE, result |-> Undefined, rendered |-> <<>>] ELSE IF isAnonymousUser(context) THEN [viewState |-> vs, hash |-> h, threw |-> FALSE, result |-> [success |-> FALSE, error |-> <<"User", "is", "anonymous">>], rendered |-> <<>>] ELSE LET flag == canSaveLocations(ldClient) locations == loadLocations(dur, mem, userEmailOf(context.email), readFails) view == determineView([email |-> context.email, isAnonymous |-> Bool(FALSE)], Len(locations), ldClient) IN [viewState |-> [setUserContext(vs, [email |-> context.email, isAnonymous |-> Bool(FALSE)]) EXCEPT !.currentView = view, !.selectedLocationId = Null], hash |-> updateURLState(view, Null), threw |-> FALSE, result |-> [success |-> TRUE, locations |-> Arr(locations), view |-> view, canSaveLocations |-> flag], rendered |-> invoke(onLoginComplete, <<[locations |-> Arr(locations), view |-> view, canSaveLocations |-> flag]>>)]

handleLogin(vs, h, dur, mem, context, ldClient, onLoginComplete, readFails) ==
  IF ~IsObject(context) /\ context.t \in {"null", "undefined"}
  THEN [viewState |-> vs, hash |-> h, threw |-> TRUE, result |-> Undefined,
        rendered |-> <<>>]
  ELSE IF isAnonymousUser(context)
  THEN [viewState |-> vs, hash |-> h, threw |-> FALSE,
        result |-> [success |-> FALSE, error |-> <<"User", "is", "anonymous">>],
        rendered |-> <<>>]
  ELSE LET flag == canSaveLocations(ldClient)
           locations == loadLocations(dur, mem, userEmailOf(context.email), readFails)
           view == determineView([email |-> context.email, isAnonymous |-> Bool(FALSE)],
                                 Len(locations), ldClient)
       IN [viewState |-> setUserContext(vs, [email |-> context.email,
                                             isAnonymous |-> Bool(FALSE)]),
           hash |-> h, threw |-> FALSE,
           result |-> [success |-> TRUE, locations |-> Arr(locations), view |-> view,
                       canSaveLocations |-> flag],
           rendered |-> invoke(onLoginComplete,
                               <<[locations |-> Arr(locations), view |-> view,
                                  canSaveLocations |-> flag]>>)]

(* handleLogout without the call of resetViewState *)
handleLogoutKeepingView(vs, h, onLogoutComplete) == [viewState |-> setUserContext(vs, [email |-> Null, isAnonymous |-> Bool(TRUE)]), hash |-> h, threw |-> FALSE, result |-> [success |-> TRUE, message |-> <<"Logged", "out">>], rendered |-> invoke(onLogoutComplete, <<>>)]

handleLogout(vs, h, onLogoutComplete) ==
  LET reset == resetViewState(setUserContext(vs, [email |-> Null,
                                                  isAnonymous |-> Bool(TRUE)]), h)
  IN [viewState |-> reset.viewState, hash |-> reset.hash, threw |-> FALSE,
      result |-> [success |-> TRUE,
                  message |-> <<"Logged", "out", "successfully,", "locations",
                                "preserved">>],
      rendered |-> invoke(onLogoutComplete, <<>>)]

(* Inputs of the view operations *)
ViewUsers ==
  { [email |-> Str(<<"u@x">>), isAnonymous |-> Bool(FALSE)],
    [email |-> Str(<<"u@x">>), isAnonymous |-> Bool(TRUE)],
    [email |-> Null, isAnonymous |-> Bool(TRUE)],
    [email |-> Str(<<"u@x">>)] }

(* The user records ViewState.user can hold *)
StateUsers == { u \in ViewUsers : TypeOf(Get(u, "isAnonymous")) = "boolean" }

Contexts ==
  { Null,
    [email |-> Str(<<"u@x">>)],
    [email |-> Str(<<"v@x">>), anonymous |-> Bool(FALSE)],
    [email |-> Str(<<"u@x">>), anonymous |-> Bool(TRUE)],
    [email |-> Str(<<>>), anonymous |-> Bool(FALSE)],
    [anonymous |-> Bool(FALSE)] }

Clients == { Null, [variation |-> Bool(TRUE)], [variation |-> Bool(FALSE)] }

Callbacks == { Function, Undefined }

Views == { "list", "detail", "settings" }

CardIds == { randomUUID(1), randomUUID(2), Str(<<>>), Undefined }

Fragments ==
  { NoFragment, ListFragment, Str(<<"#other">>), Str(<<LocationPrefix>>),
    Str(<<LocationPrefix>> \o randomUUID(1).v),
    Str(<<LocationPrefix>> \o randomUUID(2).v) }

(* A browser that starts with one or two locations saved in an earlier     *)
(* session                                                                 *)
EarlierSessionOfOne ==
  LET first == saveLocation([k \in Keys |-> Null], [k \in Keys |-> Undefined], "u@x",
                            Location(Str(<<"a">>), Num(45), Num(-120), Str(<<"q">>)),
                            randomUUID(1), 0, 0, FALSE, FALSE, Undefined)
  IN first.durable

EarlierSession ==
  LET first == saveLocation([k \in Keys |-> Null], [k \in Keys |-> Undefined], "u@x",
                            Location(Str(<<"a">>), Num(45), Num(-120), Str(<<"q">>)),
                            randomUUID(1), 0, 0, FALSE, FALSE, Undefined)
      second == saveLocation(first.durable, first.memory, "u@x",
                             Location(Str(<<"b">>), Num(-90), NegZero, Str(<<" ">>)),
                             randomUUID(2), 0, 0, FALSE, FALSE, Undefined)
  IN second.durable

InitView ==
  /\ InitApp
  /\ \/ durable = [k \in Keys |-> Null]
     \/ durable = EarlierSessionOfOne
     \/ durable = EarlierSession
  /\ memory = [k \in Keys |-> Undefined]
  /\ nextId = IF durable = EarlierSession THEN 3
              ELSE IF durable = EarlierSessionOfOne THEN 2 ELSE 1
  /\ now = 0
  /\ last = [op |-> "none"]
  /\ viewState = InitialViewState
  /\ hash = NoFragment
  /\ call = [op |-> "none"]

repositoryVars == <<durable, memory, nextId, now, last>>

RecordView(op, input, out) ==
  [op |-> op, input |-> input, out |-> out,
   before |-> [viewState |-> viewState, hash |-> hash,
               durable |-> durable, memory |-> memory]]

SetUserContext(user) ==
  /\ call.op = "none"
  /\ LET out == Silent(setUserContext(viewState, user), hash)
     IN /\ viewState' = out.viewState
        /\ hash' = out.hash
        /\ call' = RecordView("setUserContext", [user |-> user], out)
  /\ UNCHANGED <<repositoryVars, appVars>>

DetermineView(user, locationCount, ldClient) ==
  /\ call.op = "none"
  /\ call' = [op |-> "determineView",
              input |-> [user |-> user, locationCount |-> locationCount,
                         ldClient |-> ldClient],
              result |-> determineView(user, locationCount, ldClient)]
  /\ UNCHANGED <<viewState, hash, repositoryVars, appVars>>

ShouldShowBackButton(currentView, locationCount) ==
  /\ call.op = "none"
  /\ call' = [op |-> "shouldShowBackButton",
              input |-> [currentView |-> currentView, locationCount |-> locationCount],
              result |-> shouldShowBackButton(currentView, locationCount)]
  /\ UNCHANGED <<viewState, hash, repositoryVars, appVars>>

TransitionToListView(renderCallback) ==
  /\ call.op = "none"
  /\ LET out == transitionToListView(viewState, hash, renderCallback)
     IN /\ viewState' = out.viewState
        /\ hash' = out.hash
        /\ call' = RecordView("transitionToListView",
                              [renderCallback |-> renderCallback], out)
  /\ UNCHANGED <<repositoryVars, appVars>>

TransitionToDetailView(locationId, renderCallback) ==
  /\ call.op = "none"
  /\ LET out == transitionToDetailView(viewState, hash, locationId, renderCallback)
     IN /\ viewState' = out.viewState
        /\ hash' = out.hash
        /\ call' = RecordView("transitionToDetailView",
                              [locationId |-> locationId,
                               renderCallback |-> renderCallback], out)
  /\ UNCHANGED <<repositoryVars, appVars>>

HandleBackNavigation(renderCallback) ==
  /\ call.op = "none"
  /\ LET out == handleBackNavigation(viewState, hash, renderCallback)
     IN /\ viewState' = out.viewState
        /\ hash' = out.hash
        /\ call' = RecordView("handleBackNavigation",
                              [renderCallback |-> renderCallback], out)
  /\ UNCHANGED <<repositoryVars, appVars>>

HandleCardClick(locationId, renderCallback) ==
  /\ call.op = "none"
  /\ LET out == handleCardClick(viewState, hash, locationId, renderCallback)
     IN /\ viewState' = out.viewState
        /\ hash' = out.hash
        /\ call' = RecordView("handleCardClick",
                              [locationId |-> locationId,
                               renderCallback |-> renderCallback], out)
  /\ UNCHANGED <<repositoryVars, appVars>>

(* The browser moves to a history entry showing the fragment, then the     *)
(* listener registered with the two callbacks runs                         *)
PopState(fragment, listViewCallback, detailViewCallback) ==
  /\ call.op = "none"
  /\ LET out == popstate(viewState, fragment, listViewCallback, detailViewCallback)
     IN /\ viewState' = out.viewState
        /\ hash' = out.hash
        /\ call' = RecordView("popstate", [fragment |-> fragment], out)
  /\ UNCHANGED <<repositoryVars, appVars>>

ResetViewState ==
  /\ call.op = "none"
  /\ LET out == resetViewState(viewState, hash)
     IN /\ viewState' = out.viewState
        /\ hash' = out.hash
        /\ call' = RecordView("resetViewState", [none |-> Null], out)
  /\ UNCHANGED <<repositoryVars, appVars>>

HandleLogin(context, ldClient, onLoginComplete) ==
  /\ call.op = "none"
  /\ LET out == handleLogin(viewState, hash, durable, memory, context, ldClient,
                            onLoginComplete, FALSE)
     IN /\ viewState' = out.viewState
        /\ hash' = out.hash
        /\ call' = RecordView("handleLogin",
                              [context |-> context, ldClient |-> ldClient,
                               onLoginComplete |-> onLoginComplete], out)
  /\ UNCHANGED <<repositoryVars, appVars>>

HandleLogout(onLogoutComplete) ==
  /\ call.op = "none"
  /\ LET out == handleLogout(viewState, hash, onLogoutComplete)
     IN /\ viewState' = out.viewState
        /\ hash' = out.hash
        /\ call' = RecordView("handleLogout",
                              [onLogoutComplete |-> onLogoutComplete], out)
  /\ UNCHANGED <<repositoryVars, appVars>>

ShouldShowLocationManagementUI(context, ldClient) ==
  /\ call.op = "none"
  /\ call' = [op |-> "shouldShowLocationManagementUI",
              input |-> [context |-> context, ldClient |-> ldClient],
              result |-> shouldShowLocationManagementUI(context, ldClient)]
  /\ UNCHANGED <<viewState, hash, repositoryVars, appVars>>

ReturnView ==
  /\ call.op # "none"
  /\ call' = [op |-> "none"]
  /\ UNCHANGED <<viewState, hash, repositoryVars, appVars>>

NextView ==
  \/ \E u \in ViewUsers : SetUserContext(u)
  \/ \E u \in StateUsers, n \in 0..MaxCount, c \in Clients : DetermineView(u, n, c)
  \/ \E v \in Views, n \in 0..MaxCount : ShouldShowBackButton(v, n)
  \/ \E f \in Callbacks : TransitionToListView(f)
  \/ \E i \in CardIds, f \in Callbacks : TransitionToDetailView(i, f)
  \/ \E f \in Callbacks : HandleBackNavigation(f)
  \/ \E i \in CardIds, f \in Callbacks : HandleCardClick(i, f)
  \/ \E h \in Fragments, f \in Callbacks : PopState(h, f, f)
  \/ ResetViewState
  \/ \E x \in Contexts, c \in Clients, f \in Callbacks : HandleLogin(x, c, f)
  \/ \E f \in Callbacks : HandleLogout(f)
  \/ \E x \in Contexts, c \in Clients : ShouldShowLocationManagementUI(x, c)
  \/ ReturnView

SpecView == InitView /\ [][NextView]_vars

----------------------------------------------------------------------------
(* The handlers of the add, edit and delete controls                       *)
(* (src/src/addLocationHandler.js, src/src/editLocationHandler.js and the  *)
(* delete handler).  Each gives the stores after the call, the messages    *)
(* and toasts it showed, the callbacks it called and those it left to a    *)
(* timer, and whether it ended by throwing.                                *)

(* x || 0 *)
orZero(x) == IF Falsy(x) THEN Num(0) ELSE x

(* The character U+2713 that opens the messages of success, written as   *)
(* JavaScript escapes it                                                  *)
CheckMark == "\\u2713"

(* showMessage(message, type) *)
showMessage(message, type) == [message |-> message, type |-> type]

(* showToast(message, type, duration) *)
showToast(message, type) == [message |-> message, type |-> type]

(* showLocationSuccess(operation, locationName): a toast, then log(...) *)
showLocationSuccess(operation, locationName) ==
  [toasts |-> <<showToast(
       CASE operation = "save"
              -> templateString(locationName) \o <<"added", "to", "favorites">>
         [] operation = "update"
              -> templateString(locationName) \o <<"updated", "successfully">>
         [] operation = "delete"
              -> templateString(locationName) \o <<"removed", "from", "favorites">>
         [] OTHER -> <<"Operation", "completed", "successfully">>,
       "success")>>,
   threw |-> FALSE]

(* showLocationError(operation, errorMessage): a toast, then error(...),   *)
(* a name that the module neither declares nor imports (the logger's       *)
(* error is imported as logError), so the call throws a ReferenceError     *)
showLocationError(operation, errorMessage) ==
  [toasts |-> <<showToast(errorMessage, "error")>>, threw |-> TRUE]

(* A handler that returns after showing one message *)
Refusal(dur, mem, message, type) ==
  [threw |-> FALSE, durable |-> dur, memory |-> mem, minted |-> FALSE,
   messages |-> <<showMessage(message, type)>>, toasts |-> <<>>,
   invoked |-> <<>>, scheduled |-> <<>>]

(* handleSaveLocation(context, weatherData, onSaveSuccess); weatherData.city *)
(* is a string or undefined.  Reading context.anonymous throws when         *)
(* context is null or undefined.                                            *)
handleSaveLocation(dur, mem, context, weatherData, onSaveSuccess, uuid, time, later) ==
  IF ~IsObject(context) /\ context.t \in {"null", "undefined"}
  THEN [threw |-> TRUE, durable |-> dur, memory |-> mem, minted |-> FALSE,
        messages |-> <<>>, toasts |-> <<>>, invoked |-> <<>>, scheduled |-> <<>>]
  ELSE IF ~Falsy(Get(context, "anonymous")) \/ Falsy(Get(context, "email"))
  THEN Refusal(dur, mem, <<"You", "must", "be", "logged", "in", "to", "save",
                           "locations">>, "error")
  ELSE
    LET location == [name |-> Get(weatherData, "city"),
                     coordinates |->
                       [latitude |-> orZero(Get(weatherData, "latitude")),
                        longitude |-> orZero(Get(weatherData, "longitude"))],
                     query |-> Get(weatherData, "city")]
        userEmail == userEmailOf(context.email)
    IN IF Falsy(location.name) \/ trim(location.name.v) = <<>>
       THEN Refusal(dur, mem, <<"Invalid", "location:", "name", "is", "required">>,
                    "error")
       ELSE IF \/ TypeOf(location.coordinates.latitude) # "number"
               \/ TypeOf(location.coordinates.longitude) # "number"
       THEN Refusal(dur, mem, <<"Invalid", "location:", "coordinates", "are",
                                "required">>, "error")
       ELSE IF locationExists(dur, mem, userEmail, location.name, FALSE)
       THEN Refusal(dur, mem, <<"This", "location", "is", "already", "in", "your",
                                "favorites">>, "error")
       ELSE
         LET saved == saveLocation(dur, mem, userEmail, location, uuid, time, later,
                                   FALSE, FALSE, Undefined)
         IN IF saved.result.success
            THEN [threw |-> FALSE, durable |-> saved.durable,
                  memory |-> saved.memory, minted |-> saved.minted,
                  messages |-> <<showMessage(<<CheckMark>> \o templateString(location.name)
                                             \o <<"saved", "to", "favorites!">>,
                                             "success")>>,
                  toasts |-> showLocationSuccess("save", location.name).toasts,
                  invoked |-> <<>>,
                  scheduled |-> invoke(onSaveSuccess, <<>>)]
            ELSE [threw |-> showLocationError("save", saved.result.error).threw,
                  durable |-> saved.durable, memory |-> saved.memory,
                  minted |-> saved.minted,
                  messages |-> <<>>,
                  toasts |-> showLocationError("save", saved.result.error).toasts,
                  invoked |-> <<>>, scheduled |-> <<>>]

(* handleEditLocationSubmit(userEmail, locationId, newName,                *)
(* originalLocation, onEditSuccess); newName is a string                   *)
handleEditLocationSubmit(dur, mem, userEmail, locationId, newName, originalLocation, onEditSuccess, time) ==
  IF Falsy(newName) \/ trim(newName.v) = <<>>
  THEN Refusal(dur, mem, <<"Location", "name", "cannot", "be", "empty">>, "error")
  ELSE IF trim(newName.v) = trim(originalLocation.name.v)
  THEN [Refusal(dur, mem, <<"No", "changes", "made">>, "info")
          EXCEPT !.invoked = invoke(onEditSuccess, <<>>)]
  ELSE
    LET updated == updateLocation(dur, mem, userEmail, locationId,
                                  [name |-> Str(trim(newName.v))], time,
                                  FALSE, Undefined)
    IN IF updated.result.success
       THEN [threw |-> FALSE, durable |-> updated.durable,
             memory |-> updated.memory, minted |-> FALSE,
             messages |-> <<showMessage(<<CheckMark>> \o templateString(newName)
                                        \o <<"updated", "successfully!">>,
                                        "success")>>,
             toasts |-> showLocationSuccess("update", newName).toasts,
             invoked |-> <<>>,
             scheduled |-> invoke(onEditSuccess, <<>>)]
       ELSE [threw |-> showLocationError("update", updated.result.error).threw,
             durable |-> updated.durable, memory |-> updated.memory,
             minted |-> FALSE,
             messages |-> <<>>,
             toasts |-> showLocationError("update", updated.result.error).toasts,
             invoked |-> <<>>, scheduled |-> <<>>]

(* locations.find(loc => loc.id === locationId): its index, 0 when none *)
find(locations, locationId) ==
  IF \E i \in 1..Len(locations) : StrictEquals(locations[i].id, locationId)
  THEN CHOOSE i \in 1..Len(locations) :
         /\ StrictEquals(locations[i].id, locationId)
         /\ \A j \in 1..(i - 1) : ~StrictEquals(locations[j].id, locationId)
  ELSE 0

(* The id of the element showDeleteConfirmation appends to the document,   *)
(* and of the overlay showEditLocationForm appends                         *)
DeleteDialogId == "delete-confirmation-dialog"
EditOverlayId == "edit-location-overlay"

(* element.remove() of the k-th of the elements *)
remove(elements, k) == SubSeq(elements, 1, k - 1) \o SubSeq(elements, k + 1, Len(elements))

(* removeDialog() of showDeleteConfirmation: the element                   *)
(* document.getElementById finds, the first in the document with the id of *)
(* the dialog, is removed, whichever dialog the clicked button belongs to  *)
removeDialog(elements) ==
  LET found == { k \in 1..Len(elements) : elements[k].id = DeleteDialogId }
  IN IF found = {}
     THEN elements
     ELSE remove(elements, CHOOSE k \in found : \A j \in found : k <= j)

(* showDeleteConfirmation(userEmail, locationId, onConfirm, onCancel): the *)
(* elements of the document after it; it appends a dialog, and nothing     *)
(* when no location has the id                                             *)
showDeleteConfirmation(elements, dur, mem, userEmail, locationId, onConfirm, onCancel) ==
  LET locations == getLocations(dur, mem, userEmail, FALSE)
      index == find(locations, locationId)
  IN IF index = 0
     THEN elements
     ELSE Append(elements, [id |-> DeleteDialogId, name |-> locations[index].name,
                            onConfirm |-> onConfirm, onCancel |-> onCancel])

(* showEditLocationForm(userEmail, locationId, onEditSuccess, onCancel):   *)
(* the overlay it appends keeps the location found at this moment, which   *)
(* the submit handler later passes as originalLocation                     *)
showEditLocationForm(elements, dur, mem, userEmail, locationId, onEditSuccess, onCancel) ==
  LET locations == getLocations(dur, mem, userEmail, FALSE)
      index == find(locations, locationId)
  IN IF index = 0
     THEN [elements |-> elements,
           messages |-> <<showMessage(<<"Location", "not", "found">>, "error")>>]
     ELSE [elements |-> Append(elements,
                               [id |-> EditOverlayId, userEmail |-> userEmail,
                                locationId |-> locationId,
                                location |-> locations[index],
                                onEditSuccess |-> onEditSuccess,
                                onCancel |-> onCancel]),
           messages |-> <<>>]

(* handleDeleteLocation(userEmail, locationId, onSuccess, onError) up to   *)
(* its return: the name is looked up and the dialog is shown; the two      *)
(* closures it passes are kept with what they captured                     *)
handleDeleteLocation(elements, dur, mem, userEmail, locationId, onSuccess, onError) ==
  LET locations == getLocations(dur, mem, userEmail, FALSE)
      index == find(locations, locationId)
      locationName == IF index # 0 THEN locations[index].name
                      ELSE Str(<<"Location">>)
      captured == [userEmail |-> userEmail, locationId |-> locationId,
                   locationName |-> locationName,
                   onSuccess |-> onSuccess, onError |-> onError]
  IN [durable |-> dur, memory |-> mem,
      elements |-> showDeleteConfirmation(elements, dur, mem, userEmail, locationId,
                                          captured, captured)]

(* The closure handleDeleteLocation passes as onConfirm *)
deletionConfirmed(dur, mem, captured, listReadFails, setItemError) ==
  LET result == deleteLocation(dur, mem, captured.userEmail, captured.locationId,
                               listReadFails, setItemError)
      deleteCalls == <<[userEmail |-> captured.userEmail,
                        locationId |-> captured.locationId]>>
  IN IF result.result.success
     THEN [threw |-> FALSE, durable |-> result.durable, memory |-> result.memory,
           deleteCalls |-> deleteCalls, result |-> result.result,
           toasts |-> showLocationSuccess("delete", captured.locationName).toasts,
           succeeded |-> invoke(captured.onSuccess, <<>>),
           failed |-> <<>>]
     ELSE
       LET message == IF result.result.error = <<>>
                      THEN <<"Failed", "to", "delete", "location">>
                      ELSE result.result.error
           shown == showLocationError("delete", message)
       IN [threw |-> shown.threw, durable |-> result.durable,
           memory |-> result.memory,
           deleteCalls |-> deleteCalls, result |-> result.result,
           toasts |-> shown.toasts,
           succeeded |-> <<>>,
           failed |-> IF shown.threw THEN <<>>
                      ELSE invoke(captured.onError, <<result.result.error>>)]

(* The closure handleDeleteLocation passes as onCancel: it only logs *)
deletionCancelled(dur, mem, captured) ==
  [threw |-> FALSE, durable |-> dur, memory |-> mem, deleteCalls |-> <<>>,
   result |-> Undefined, toasts |-> <<>>, succeeded |-> <<>>, failed |-> <<>>]

(* Inputs of the handlers *)
WeatherData ==
  { [city |-> Str(<<"a">>), latitude |-> Num(45), longitude |-> Num(-120)],
    [city |-> Str(<<"c">>), latitude |-> Undefined, longitude |-> Num(0)],
    [city |-> Str(<<"d">>), latitude |-> Num(91), longitude |-> Num(0)],
    [city |-> Str(<<" ">>), latitude |-> Num(1), longitude |-> Num(1)],
    [latitude |-> Num(1), longitude |-> Num(1)] }

NewNames == { Str(<<"z">>), Str(<<" ", "b", " ">>), Str(<<" ">>) }

(* The ids the edit and delete controls are given *)
HandlerIds == { randomUUID(n) : n \in 1..MaxIds }

(* What localStorage.setItem does when a deletion is confirmed: it works,  *)
(* or the store is full                                                    *)
ConfirmOutcomes == { Undefined, QuotaExceededError }

(* The edit and delete controls of the page: the identity whose email the  *)
(* handler is given, and the two callbacks.  The named user's controls     *)
(* have both callbacks, those of the identity flagged anonymous only the   *)
(* second.                                                                 *)
Controls ==
  { <<[email |-> Str(<<"u@x">>)], Function, Function>>,
    <<[email |-> Str(<<"u@x">>), anonymous |-> Bool(TRUE)], Undefined, Function>> }

(* The clicks on the save control: the identity, the weather shown and the *)
(* callback.  A named user saves a city, with and without a callback, and  *)
(* every other identity and every other weather is tried once.             *)
SaveClicks ==
  LET named == [email |-> Str(<<"u@x">>)]
      city == CHOOSE w \in WeatherData : Get(w, "city") = Str(<<"c">>)
  IN ({named} \X WeatherData \X {Function})
       \cup ({named} \X {city} \X {Undefined})
       \cup ({ x \in Contexts : ~IsObject(x) \/ Get(x, "email") # Str(<<"v@x">>) }
               \X {city} \X {Function})

(* A click on the save control; later is what the clock reads when         *)
(* saveLocation reads it the second time                                   *)
HandleSaveLocation(context, weatherData, onSaveSuccess, later) ==
  /\ call.op = "none"
  /\ nextId <= MaxIds
  /\ later \in now..MaxTime
  /\ LET out == handleSaveLocation(durable, memory, context, weatherData,
                                   onSaveSuccess, randomUUID(nextId), now, later)
     IN /\ durable' = out.durable
        /\ memory' = out.memory
        /\ nextId' = IF out.minted THEN nextId + 1 ELSE nextId
        /\ now' = IF out.minted THEN later ELSE now
        /\ call' = RecordView("handleSaveLocation",
                              [context |-> context, weatherData |-> weatherData,
                               onSaveSuccess |-> onSaveSuccess], out)
  /\ UNCHANGED <<last, viewState, hash, dialog, launchVars, weatherVars>>

(* The edit control of a location is used: showEditLocationForm is called  *)
(* with the email of the identity                                          *)
ShowEditLocationForm(context, locationId, onEditSuccess, onCancel) ==
  /\ call.op = "none"
  /\ Len(dialog) < MaxDialogs
  /\ LET out == showEditLocationForm(dialog, durable, memory,
                                     userEmailOf(context.email), locationId,
                                     onEditSuccess, onCancel)
     IN /\ dialog' = [k \in 1..Len(out.elements) |->
                        IF k <= Len(dialog) THEN dialog[k]
                        ELSE [context |-> context] @@ out.elements[k]]
        /\ call' = RecordView("showEditLocationForm",
                              [context |-> context, locationId |-> locationId,
                               onEditSuccess |-> onEditSuccess, onCancel |-> onCancel],
                              [threw |-> FALSE, durable |-> durable, memory |-> memory,
                               messages |-> out.messages,
                               shown |-> Len(out.elements) > Len(dialog)])
  /\ UNCHANGED <<durable, memory, nextId, now, last, viewState, hash, launchVars, weatherVars>>

(* form.onsubmit of the k-th element, an edit form, with nameInput.value:  *)
(* handleEditLocationSubmit is given the location the form was opened      *)
(* with, and then the overlay is removed, unless the handler threw         *)
HandleEditLocationSubmit(k, newName) ==
  /\ call.op = "none"
  /\ k <= Len(dialog)
  /\ dialog[k].id = EditOverlayId
  /\ LET form == dialog[k]
         out == handleEditLocationSubmit(durable, memory, form.userEmail,
                                         form.locationId, newName, form.location,
                                         form.onEditSuccess, now)
     IN /\ durable' = out.durable
        /\ memory' = out.memory
        /\ dialog' = IF out.threw THEN dialog ELSE remove(dialog, k)
        /\ call' = RecordView("handleEditLocationSubmit",
                              [context |-> form.context, locationId |-> form.locationId,
                               newName |-> newName,
                               originalLocation |-> form.location,
                               onEditSuccess |-> form.onEditSuccess], out)
  /\ UNCHANGED <<nextId, now, last, viewState, hash, launchVars, weatherVars>>

(* cancelButton.onclick of the k-th element, an edit form (also the Escape *)
(* key and a click on the overlay): the overlay is removed and onCancel is *)
(* called                                                                  *)
CancelEditLocation(k) ==
  /\ call.op = "none"
  /\ k <= Len(dialog)
  /\ dialog[k].id = EditOverlayId
  /\ dialog' = remove(dialog, k)
  /\ call' = RecordView("cancelEdit",
                        [context |-> dialog[k].context,
                         locationId |-> dialog[k].locationId,
                         onCancel |-> dialog[k].onCancel],
                        [threw |-> FALSE, durable |-> durable, memory |-> memory,
                         cancelled |-> invoke(dialog[k].onCancel, <<>>)])
  /\ UNCHANGED <<durable, memory, nextId, now, last, viewState, hash, launchVars, weatherVars>>

HandleDeleteLocation(context, locationId, onSuccess, onError) ==
  /\ call.op = "none"
  /\ Len(dialog) < MaxDialogs
  /\ LET out == handleDeleteLocation(dialog, durable, memory,
                                     userEmailOf(context.email),
                                     locationId, onSuccess, onError)
     IN /\ durable' = out.durable
        /\ memory' = out.memory
        /\ dialog' = [k \in 1..Len(out.elements) |->
                        IF k <= Len(dialog) THEN dialog[k]
                        ELSE [context |-> context] @@ out.elements[k]]
        /\ call' = RecordView("handleDeleteLocation",
                              [context |-> context, locationId |-> locationId,
                               onSuccess |-> onSuccess, onError |-> onError],
                              [durable |-> out.durable, memory |-> out.memory,
                               shown |-> Len(out.elements) > Len(dialog)])
  /\ UNCHANGED <<nextId, now, last, viewState, hash, launchVars, weatherVars>>

(* A click on the Delete button of the k-th element, a confirmation        *)
(* dialog: removeDialog() runs, and then the onConfirm closure of the      *)
(* clicked dialog                                                          *)
ClickConfirm(k, setItemError) ==
  /\ call.op = "none"
  /\ k <= Len(dialog)
  /\ dialog[k].id = DeleteDialogId
  /\ LET out == deletionConfirmed(durable, memory, dialog[k].onConfirm, FALSE, setItemError)
     IN /\ durable' = out.durable
        /\ memory' = out.memory
        /\ call' = RecordView("confirm",
                              [context |-> dialog[k].context,
                               captured |-> dialog[k].onConfirm,
                               clicked |-> k,
                               setItemError |-> setItemError], out)
  /\ dialog' = removeDialog(dialog)
  /\ UNCHANGED <<nextId, now, last, viewState, hash, launchVars, weatherVars>>

(* A click on the Cancel button of the k-th element, a confirmation        *)
(* dialog, or the Escape key in it                                         *)
ClickCancel(k) ==
  /\ call.op = "none"
  /\ k <= Len(dialog)
  /\ dialog[k].id = DeleteDialogId
  /\ LET out == deletionCancelled(durable, memory, dialog[k].onCancel)
     IN /\ durable' = out.durable
        /\ memory' = out.memory
        /\ call' = RecordView("cancel",
                              [context |-> dialog[k].context,
                               captured |-> dialog[k].onCancel,
                               clicked |-> k], out)
  /\ dialog' = removeDialog(dialog)
  /\ UNCHANGED <<nextId, now, last, viewState, hash, launchVars, weatherVars>>

(* The handlers run one at a time, in any order: an open dialog or form    *)
(* keeps no control of the page from being used.  The clock stands still.  *)
NextHandlers ==
  \/ \E c \in SaveClicks : HandleSaveLocation(c[1], c[2], c[3], now)
  \/ \E c \in Controls, i \in HandlerIds : ShowEditLocationForm(c[1], i, c[2], c[3])
  \/ \E k \in 1..MaxDialogs, n \in NewNames : HandleEditLocationSubmit(k, n)
  \/ \E k \in 1..MaxDialogs : CancelEditLocation(k)
  \/ \E c \in Controls, i \in HandlerIds : HandleDeleteLocation(c[1], i, c[2], c[3])
  \/ \E k \in 1..MaxDialogs, w \in ConfirmOutcomes : ClickConfirm(k, w)
  \/ \E k \in 1..MaxDialogs : ClickCancel(k)
  \/ ReturnView

SpecHandlers == InitView /\ [][NextHandlers]_vars

----------------------------------------------------------------------------
(* The launch (bootstrap module): geolocation with its cache, the          *)
(* anonymous context and the initialization of the SDK.  In a browser      *)
(* navigator exists, so the promise of getUserLocation never rejects.      *)

CACHE_DURATION == 5 * 60 * 1000

MaxClock == 600001

(* getUserLocation whose cache lasts through the last millisecond *)
getUserLocationInclusive(cachedLoc, cacheTs, time, supported) == IF ~Falsy(cachedLoc) /\ ~Falsy(cacheTs) /\ time - cacheTs.v <= CACHE_DURATION THEN [settled |-> TRUE, invoked |-> FALSE, result |-> cachedLoc] ELSE IF supported THEN [settled |-> FALSE, invoked |-> TRUE, result |-> Undefined] ELSE [settled |-> TRUE, invoked |-> FALSE, result |-> Null]

(* getUserLocation() up to the return of its promise: the cached location, *)
(* or a call of navigator.geolocation.getCurrentPosition whose answer is   *)
(* awaited, or null when the browser has no geolocation                    *)
getUserLocation(cachedLoc, cacheTs, time, supported) ==
  IF ~Falsy(cachedLoc) /\ ~Falsy(cacheTs) /\ time - cacheTs.v < CACHE_DURATION
  THEN [settled |-> TRUE, invoked |-> FALSE, result |-> cachedLoc]
  ELSE IF supported
  THEN [settled |-> FALSE, invoked |-> TRUE, result |-> Undefined]
  ELSE [settled |-> TRUE, invoked |-> FALSE, result |-> Null]

(* The success callback of getCurrentPosition *)
positionObtained(position, time) ==
  LET location == [latitude |-> position.coords.latitude,
                   longitude |-> position.coords.longitude,
                   accuracy |-> position.coords.accuracy]
  IN [cachedLocation |-> location, cacheTimestamp |-> Num(time),
      resolved |-> location]

(* The error callback of getCurrentPosition *)
positionFailed(cachedLoc, cacheTs) ==
  [cachedLocation |-> cachedLoc, cacheTimestamp |-> cacheTs, resolved |-> Null]

(* createAnonymousContext that leaves the location out *)
createAnonymousContextWithoutLocation(location) == [kind |-> Str(<<"user">>), anonymous |-> Bool(TRUE)]

createAnonymousContext(location) ==
  IF ~Falsy(location)
  THEN [kind |-> Str(<<"user">>), anonymous |-> Bool(TRUE),
        location |-> [latitude |-> location.latitude,
                      longitude |-> location.longitude]]
  ELSE [kind |-> Str(<<"user">>), anonymous |-> Bool(TRUE)]

(* bootstrap from the end of await getUserLocation() to the call of        *)
(* initializeSDK.  started is what was so when bootstrap was called, and   *)
(* whether other code has used localStorage since; accessed is the value   *)
(* of localStorageAccessed now, and locating whether the position request  *)
(* of bootstrap is still unanswered.                                       *)
initializeSDKCalled(location, started, accessed, locating) ==
  [pc |-> "sdk", location |-> location,
   context |-> createAnonymousContext(location),
   sdkCalls |-> <<createAnonymousContext(location)>>,
   started |-> started, accessedAtCall |-> accessed, locatingAtCall |-> locating]

(* bootstrap that does not await the location *)
bootstrapWithoutAwait(got, accessed) == initializeSDKCalled(IF got.settled THEN got.result ELSE Null, [accessed |-> accessed, byOthers |-> FALSE], accessed, ~got.settled)

(* bootstrap(initializeSDK) up to await getUserLocation(), where it        *)
(* suspends and returns its promise to the caller, whether the promise of  *)
(* getUserLocation is settled already (with value) or waits for a position *)
bootstrap(got, accessed) ==
  [pc |-> "location", started |-> [accessed |-> accessed, byOthers |-> FALSE],
   sdkCalls |-> <<>>, settled |-> got.settled, value |-> got.result]

(* The continuation of bootstrap after await getUserLocation(), run when   *)
(* the code that called bootstrap has finished its turn                    *)
bootstrapResumed(b, accessed) == initializeSDKCalled(b.value, b.started, accessed, FALSE)

(* bootstrap after await initializeSDK(anonymousContext): the error is     *)
(* thrown again, or client, context and location are returned              *)
bootstrapSettled(b, outcome) ==
  [pc |-> IF outcome.ok THEN "returned" ELSE "rejected",
   location |-> b.location, context |-> b.context, sdkCalls |-> b.sdkCalls,
   started |-> b.started, accessedAtCall |-> b.accessedAtCall,
   locatingAtCall |-> b.locatingAtCall,
   sdk |-> outcome,
   result |-> IF outcome.ok
              THEN [client |-> outcome.client, context |-> b.context,
                    location |-> b.location]
              ELSE Undefined,
   error |-> IF outcome.ok THEN Undefined ELSE outcome.error]

(* Inputs of the launch *)
Positions ==
  { [coords |-> [latitude |-> Num(45), longitude |-> Num(-120), accuracy |-> Num(10)]],
    [coords |-> [latitude |-> Num(0), longitude |-> Num(0), accuracy |-> Num(5)]] }

SDKOutcomes ==
  { [ok |-> TRUE, client |-> [variation |-> Bool(TRUE)]],
    [ok |-> FALSE, error |-> <<"SDK", "initialization", "timed", "out">>] }

(* The time between two events: just less than the cache lasts, or as long *)
ClockSteps == { CACHE_DURATION - 1, CACHE_DURATION }

(* Who waits for a position: the launch, or another caller of              *)
(* getUserLocation                                                         *)
Callers == { "bootstrap", "app" }

otherVars == <<dialog, viewState, hash, repositoryVars, weatherVars>>

(* The promise bootstrap awaits is settled and its continuation waits for  *)
(* the running code to finish                                              *)
Queued == boot.pc = "location" /\ boot.settled

StartBootstrap(supported) ==
  /\ call.op = "none"
  /\ boot.pc \in {"idle", "returned", "rejected"}
  /\ LET got == getUserLocation(cachedLocation, cacheTimestamp, clock, supported)
     IN /\ requests' = IF got.invoked THEN requests \cup {"bootstrap"} ELSE requests
        /\ boot' = bootstrap(got, localStorageAccessed)
        /\ call' = [op |-> "bootstrap", at |-> clock, supported |-> supported,
                    known |-> acquisition, out |-> got]
  /\ UNCHANGED <<clock, cachedLocation, cacheTimestamp, acquisition,
                 localStorageAccessed, otherVars>>

GetUserLocation(supported) ==
  /\ call.op = "none"
  /\ "app" \notin requests
  /\ LET got == getUserLocation(cachedLocation, cacheTimestamp, clock, supported)
     IN /\ requests' = IF got.invoked THEN requests \cup {"app"} ELSE requests
        /\ call' = [op |-> "getUserLocation", at |-> clock, supported |-> supported,
                    known |-> acquisition, out |-> got]
  /\ UNCHANGED <<clock, cachedLocation, cacheTimestamp, acquisition, boot,
                 localStorageAccessed, otherVars>>

(* The success callback of a position request.  The browser calls it in a  *)
(* turn of its own, so not while a continuation of bootstrap is queued;    *)
(* the continuation of a bootstrap that waited for this position runs as   *)
(* soon as the callback has returned.                                      *)
PositionSuccess(caller, position) ==
  /\ call.op = "none"
  /\ caller \in requests
  /\ ~Queued
  /\ LET out == positionObtained(position, clock)
     IN /\ cachedLocation' = out.cachedLocation
        /\ cacheTimestamp' = out.cacheTimestamp
        /\ boot' = IF caller = "bootstrap" /\ boot.pc = "location"
                   THEN initializeSDKCalled(out.resolved, boot.started,
                                            localStorageAccessed, FALSE)
                   ELSE boot
        /\ call' = [op |-> "position", caller |-> caller, position |-> position,
                    out |-> out,
                    before |-> [cachedLocation |-> cachedLocation,
                                cacheTimestamp |-> cacheTimestamp]]
  /\ acquisition' = [any |-> TRUE, at |-> clock, coords |-> position.coords]
  /\ requests' = requests \ {caller}
  /\ UNCHANGED <<clock, localStorageAccessed, otherVars>>

PositionError(caller) ==
  /\ call.op = "none"
  /\ caller \in requests
  /\ ~Queued
  /\ LET out == positionFailed(cachedLocation, cacheTimestamp)
     IN /\ cachedLocation' = out.cachedLocation
        /\ cacheTimestamp' = out.cacheTimestamp
        /\ boot' = IF caller = "bootstrap" /\ boot.pc = "location"
                   THEN initializeSDKCalled(out.resolved, boot.started,
                                            localStorageAccessed, FALSE)
                   ELSE boot
        /\ call' = [op |-> "positionError", caller |-> caller, out |-> out,
                    before |-> [cachedLocation |-> cachedLocation,
                                cacheTimestamp |-> cacheTimestamp]]
  /\ requests' = requests \ {caller}
  /\ UNCHANGED <<clock, acquisition, localStorageAccessed, otherVars>>

(* clearGeolocationCache() *)
ClearGeolocationCache ==
  /\ call.op = "none"
  /\ cachedLocation # Null
  /\ cachedLocation' = Null
  /\ cacheTimestamp' = Null
  /\ acquisition' = NeverAcquired
  /\ UNCHANGED <<clock, requests, boot, localStorageAccessed, call, otherVars>>

(* The continuation of bootstrap runs: the context is built and            *)
(* initializeSDK is called                                                 *)
ResumeBootstrap ==
  /\ call.op = "none"
  /\ Queued
  /\ boot' = bootstrapResumed(boot, localStorageAccessed)
  /\ UNCHANGED <<clock, cachedLocation, cacheTimestamp, requests, acquisition,
                 localStorageAccessed, call, otherVars>>

(* The promise of initializeSDK is fulfilled or rejected *)
SDKSettles(outcome) ==
  /\ call.op = "none"
  /\ boot.pc = "sdk"
  /\ boot' = bootstrapSettled(boot, outcome)
  /\ UNCHANGED <<clock, cachedLocation, cacheTimestamp, requests, acquisition,
                 localStorageAccessed, call, otherVars>>

(* Code other than bootstrap reads an item of localStorage through the     *)
(* wrapped getItem, also while bootstrap is suspended: the code that       *)
(* called bootstrap, in the rest of its turn, or another task              *)
ReadLocalStorage ==
  /\ call.op = "none"
  /\ ~localStorageAccessed
  /\ localStorageAccessed' = TRUE
  /\ boot' = IF boot.pc = "location"
             THEN [boot EXCEPT !.started.byOthers = TRUE]
             ELSE boot
  /\ UNCHANGED <<clock, cachedLocation, cacheTimestamp, requests, acquisition,
                 call, otherVars>>

(* resetLocalStorageTracking() *)
ResetLocalStorageTracking ==
  /\ call.op = "none"
  /\ localStorageAccessed
  /\ localStorageAccessed' = FALSE
  /\ UNCHANGED <<clock, cachedLocation, cacheTimestamp, requests, acquisition,
                 boot, call, otherVars>>

(* Time passes *)
AdvanceClock(d, limit) ==
  /\ call.op = "none"
  /\ clock + d <= limit
  /\ clock' = clock + d
  /\ UNCHANGED <<cachedLocation, cacheTimestamp, requests, acquisition, boot,
                 localStorageAccessed, call, otherVars>>

NextBootstrap ==
  \/ \E b \in BOOLEAN : StartBootstrap(b)
  \/ \E b \in BOOLEAN : GetUserLocation(b)
  \/ \E c \in Callers, p \in Positions : PositionSuccess(c, p)
  \/ \E c \in Callers : PositionError(c)
  \/ ClearGeolocationCache
  \/ ResumeBootstrap
  \/ \E o \in SDKOutcomes : SDKSettles(o)
  \/ ReadLocalStorage
  \/ ResetLocalStorageTracking
  \/ \E d \in ClockSteps : AdvanceClock(d, MaxClock)
  \/ ReturnView

SpecBootstrap == InitView /\ [][NextBootstrap]_vars

----------------------------------------------------------------------------
(* The weather cache (weather data fetcher) *)

CACHE_DURATION_WEATHER == 60 * 1000

MaxWeatherClock == 60001

(* getCachedWeather that drops an entry it finds too old *)
getCachedWeatherEvicting(cache, locationId, time) == IF ~Falsy(cache[locationId]) /\ time - cache[locationId].fetchedAt.v < CACHE_DURATION_WEATHER THEN [result |-> cache[locationId].data, weatherCache |-> cache] ELSE [result |-> Null, weatherCache |-> [cache EXCEPT ![locationId] = Undefined]]

(* getCachedWeather(locationId): what it returns, and the cache after it *)
getCachedWeather(cache, locationId, time) ==
  LET cached == cache[locationId]
  IN IF ~Falsy(cached) /\ time - cached.fetchedAt.v < CACHE_DURATION_WEATHER
     THEN [result |-> cached.data, weatherCache |-> cache]
     ELSE [result |-> Null, weatherCache |-> cache]

(* getStaleCache(locationId) *)
getStaleCache(cache, locationId) ==
  LET cached == cache[locationId]
  IN [result |-> IF ~Falsy(cached) THEN cached.data ELSE Null,
      weatherCache |-> cache]

(* What a call of a name that the calling module neither declares nor     *)
(* imports throws                                                          *)
ReferenceError(name) == [name |-> Str(<<"ReferenceError">>), message |-> Str(<<name, "is", "not", "defined">>)]

(* What calling a value that is no function throws *)
NotAFunction(name) == [name |-> Str(<<"TypeError">>), message |-> Str(<<name, "is", "not", "a", "function">>)]

(* What const { latitude, longitude } = x throws for an x that is          *)
(* undefined or null; the message ends with a full stop                    *)
CannotDestructure(x) == [name |-> Str(<<"TypeError">>), message |-> Str(<<"Cannot", "destructure", "property", "'latitude'", "of", "'location.coordinates'", "as", "it", "is", IF x = Null THEN "null." ELSE "undefined.">>)]

(* getWeatherAPIKey(): env is what import.meta.env.VITE_WEATHER_API_KEY    *)
(* holds                                                                   *)
getWeatherAPIKey(env) == IF Falsy(env) THEN Null ELSE env

(* fetchWeatherForLocationInternal(location) up to await fetch(url):       *)
(* without API key it calls warn, which the module neither declares nor    *)
(* imports (it imports log only), so it throws before any request is       *)
(* made; the coordinates of the location are then taken apart              *)
beforeRequest(location, env) ==
  IF Falsy(getWeatherAPIKey(env))
  THEN [threw |-> TRUE, error |-> ReferenceError("warn")]
  ELSE IF Get(location, "coordinates") \in {Undefined, Null}
       THEN [threw |-> TRUE, error |-> CannotDestructure(Get(location, "coordinates"))]
       ELSE [threw |-> FALSE]

(* fetchWeatherForLocationInternal(location), its request answered with    *)
(* response: a response that is not ok is thrown on (the log call before   *)
(* the throw calls the Error object just built, which throws in its        *)
(* place); from a response that is ok the snapshot is extracted and put    *)
(* in the cache.  The clock is read twice, time by new Date() for the      *)
(* snapshot and later by Date.now() for the cache entry.                   *)
fetchWeatherForLocationInternal(cache, location, env, response, time, later) ==
  IF beforeRequest(location, env).threw
  THEN [requested |-> FALSE, threw |-> TRUE, error |-> beforeRequest(location, env).error,
        weatherCache |-> cache]
  ELSE IF ~response.ok
  THEN [requested |-> TRUE, threw |-> TRUE, error |-> NotAFunction("error"),
        weatherCache |-> cache]
  ELSE LET weatherData == [locationId |-> location.id,
                           temperature |-> response.data.current.temp_c,
                           temperatureF |-> response.data.current.temp_f,
                           condition |-> response.data.current.condition.text,
                           conditionIcon |-> response.data.current.condition.icon,
                           fetchedAt |-> toISOString(time),
                           isStale |-> Bool(FALSE)]
       IN [requested |-> TRUE, threw |-> FALSE, result |-> weatherData,
           weatherCache |-> [cache EXCEPT ![location.id] =
                               [data |-> weatherData, fetchedAt |-> Num(later)]]]

(* The function returned by withRetry(fn, maxRetries, delay), called once: *)
(* outcomes[k] is what the k-th call of fn does.  The loop body returns    *)
(* what fn returns; its catch block stores the error and then calls warn,  *)
(* which errorHandler.js neither declares nor imports, so the block        *)
(* throws and the loop is left before the test of attempt < maxRetries.    *)
(* When the loop does not run at all, the statement after it calls error,  *)
(* which is not declared either.                                           *)
withRetry(outcomes, maxRetries) ==
  IF ~(0 <= maxRetries)
  THEN [calls |-> 0, threw |-> TRUE, error |-> ReferenceError("error")]
  ELSE IF ~outcomes[1].threw
       THEN [calls |-> 1, threw |-> FALSE, result |-> outcomes[1].result]
       ELSE [calls |-> 1, threw |-> TRUE, error |-> ReferenceError("warn")]

(* handleWeatherAPIError(error, locationName = 'this location'): the       *)
(* message it returns and the toast it shows; the full stop follows the    *)
(* name without a space                                                    *)
handleWeatherAPIError(error, locationName) ==
  LET name == IF locationName = Undefined THEN <<"this", "location">>
              ELSE templateString(locationName)
      message == <<"Unable", "to", "load", "weather", "data", "for">> \o name
                   \o <<".", "Using", "cached", "data", "if", "available.">>
  IN [result |-> message, toasts |-> <<showToast(message, "error")>>]

(* fetchWeatherForLocation(location, enableRetry = true): responses[k] is  *)
(* what the k-th request would be answered; every failure ends in the      *)
(* catch that shows a toast and returns null                               *)
fetchWeatherForLocation(cache, location, env, responses, time, later, enableRetry) ==
  LET outcomes == [k \in 1..Len(responses) |->
                     fetchWeatherForLocationInternal(cache, location, env, responses[k],
                                                     time, later)]
      retry == IF enableRetry = Undefined THEN Bool(TRUE) ELSE enableRetry
      run == IF ~Falsy(retry)
             THEN withRetry(outcomes, 2)
             ELSE IF outcomes[1].threw
                  THEN [calls |-> 1, threw |-> TRUE, error |-> outcomes[1].error]
                  ELSE [calls |-> 1, threw |-> FALSE, result |-> outcomes[1].result]
      made == Cardinality({ k \in 1..run.calls : outcomes[k].requested })
  IN IF run.threw
     THEN [result |-> Null, weatherCache |-> cache, requests |-> made,
           toasts |-> handleWeatherAPIError(run.error, Get(location, "name")).toasts]
     ELSE [result |-> run.result, weatherCache |-> outcomes[run.calls].weatherCache,
           requests |-> made, toasts |-> <<>>]

(* results.forEach((result, index) => ...) of fetchWeatherForLocations     *)
(* from index on: a value that is truthy is put in the map; for another    *)
(* one the stale entry is looked up and then warn or error is called,      *)
(* neither of which the module declares or imports (it imports log only),  *)
(* so the callback throws out of forEach                                   *)
RECURSIVE forEachResult(_, _, _, _, _)
forEachResult(cache, locations, values, index, weatherMap) ==
  IF index > Len(locations)
  THEN [threw |-> FALSE, weatherMap |-> weatherMap]
  ELSE IF ~Falsy(values[index])
       THEN forEachResult(cache, locations, values, index + 1,
                          [weatherMap EXCEPT ![locations[index].id] = values[index]])
       ELSE IF ~Falsy(getStaleCache(cache, locations[index].id).result)
            THEN [threw |-> TRUE, error |-> ReferenceError("warn"), weatherMap |-> weatherMap]
            ELSE [threw |-> TRUE, error |-> ReferenceError("error"), weatherMap |-> weatherMap]

(* fetchWeatherForLocations(locations) from the moment on at which         *)
(* Promise.allSettled has settled: values[k] is what the promise of the    *)
(* k-th location was fulfilled with and cache the cache of that moment.    *)
(* How its promise settles; an id without entry in the Map reads as        *)
(* undefined                                                               *)
fetchWeatherForLocations(cache, locations, values) ==
  LET built == forEachResult(cache, locations, values, 1, [i \in WeatherIds |-> Undefined])
  IN IF built.threw
     THEN [rejected |-> TRUE, error |-> built.error, weatherCache |-> cache, values |-> values]
     ELSE [rejected |-> FALSE, result |-> built.weatherMap, weatherCache |-> cache,
           values |-> values]

(* Inputs of the weather cache *)
Responses ==
  { [ok |-> TRUE,
     data |-> [current |-> [temp_c |-> Num(20), temp_f |-> Num(68),
                            condition |-> [text |-> Str(<<"Sunny">>),
                                           icon |-> Str(<<"sunny.png">>)]]]],
    [ok |-> TRUE,
     data |-> [current |-> [temp_c |-> Num(-5), temp_f |-> Num(23),
                            condition |-> [text |-> Str(<<"Snow">>),
                                           icon |-> Str(<<"snow.png">>)]]]],
    [ok |-> FALSE] }

(* What three requests in a row are answered: failures, then the same     *)
(* answer from the first one that is ok on                                 *)
Answers ==
  { <<a, b, c>> : a \in Responses, b \in Responses, c \in Responses } \
    { r \in { <<a, b, c>> : a \in Responses, b \in Responses, c \in Responses } :
        \E k \in 1..2 : r[k].ok /\ r[k + 1] # r[k] }

(* The most retries a wrapper is made with *)
MaxRetries == 2

(* What the calls of the function handed to withRetry do: the n-th one     *)
(* returns, the others throw                                               *)
Outcomes ==
  { [k \in 1..(MaxRetries + 1) |->
       IF k = n THEN [threw |-> FALSE, result |-> Num(k)]
                ELSE [threw |-> TRUE, error |-> Str(<<"e", ToString(k)>>)]] : n \in 1..(MaxRetries + 2) }

(* The saved locations weather is asked for *)
WeatherLocation(n) == [id |-> randomUUID(n), name |-> Str(<<"a", ToString(n)>>), coordinates |-> [latitude |-> Num(n), longitude |-> Num(n)]]

(* The saved locations a batch is asked for *)
Batches ==
  { <<>>,
    <<WeatherLocation(1)>>,
    <<WeatherLocation(1), WeatherLocation(2)>> }

(* What VITE_WEATHER_API_KEY holds: a key, or nothing *)
ApiKeys == { Str(<<"key">>), Undefined }

(* The most calls of the fetcher that wait for an answer at a time *)
MaxInFlight == 1

(* The time between two events: just less than a snapshot stays fresh, or  *)
(* as long                                                                 *)
WeatherClockSteps == { CACHE_DURATION_WEATHER - 1, CACHE_DURATION_WEATHER }

geoVars == <<cachedLocation, cacheTimestamp, requests, acquisition, boot, localStorageAccessed>>

(* The request that is not sent has no answer to look at *)
NoAnswer == <<[ok |-> FALSE]>>

(* The sequences of a sequence, one after the other *)
RECURSIVE flat(_)
flat(seqs) == IF seqs = <<>> THEN <<>> ELSE seqs[1] \o flat(Tail(seqs))

(* A call of the fetcher up to its first await: for every location a       *)
(* request is sent, or the promise of the location is settled already      *)
(* (to null, after a toast) because nothing was sent; at is the clock of   *)
(* the call                                                                *)
started(op, locations, env, enableRetry, cache, time) ==
  LET early(k) == fetchWeatherForLocation(cache, locations[k], env, NoAnswer, time, time,
                                          enableRetry)
      sent == { k \in 1..Len(locations) : ~beforeRequest(locations[k], env).threw }
      unsent == [k \in 1..Len(locations) |-> IF k \in sent THEN <<>> ELSE early(k).toasts]
  IN [op |-> op, locations |-> locations, env |-> env, enableRetry |-> enableRetry,
      pending |-> sent,
      values |-> [k \in 1..Len(locations) |-> IF k \in sent THEN Undefined ELSE Null],
      requests |-> 0,
      toasts |-> flat(unsent)]

(* The call f after the request for its k-th location was answered: what   *)
(* fetchWeatherForLocation does from the answer on, read at the two clock  *)
(* readings of that moment                                                 *)
answered(f, k, cache, responses, time, later) ==
  LET out == fetchWeatherForLocation(cache, f.locations[k], f.env, responses, time, later,
                                     f.enableRetry)
  IN [call |-> [f EXCEPT !.pending = @ \ {k},
                         !.values[k] = out.result,
                         !.requests = @ + out.requests,
                         !.toasts = @ \o out.toasts],
      weatherCache |-> out.weatherCache,
      result |-> out.result]

(* What the promise of the call f settles to once none of its requests is  *)
(* waiting, the cache being cache; responses is what the requests of a     *)
(* single fetch were answered                                              *)
settled(f, cache, time, responses) ==
  IF f.op = "fetchWeatherForLocation"
  THEN [op |-> f.op, locationId |-> f.locations[1].id, env |-> f.env,
        responses |-> responses, enableRetry |-> f.enableRetry, at |-> time,
        out |-> [result |-> f.values[1], weatherCache |-> cache,
                 requests |-> f.requests, toasts |-> f.toasts]]
  ELSE [op |-> f.op, locations |-> f.locations, env |-> f.env, at |-> time,
        requests |-> f.requests, toasts |-> f.toasts,
        out |-> fetchWeatherForLocations(cache, f.locations, f.values)]

(* A promise of the fetcher is settled and its continuation is queued:     *)
(* it runs before the answer to any request is taken                       *)
SettlementQueued == \E c \in 1..Len(inFlight) : inFlight[c].pending = {}

(* fetchWeatherForLocation(location, enableRetry) is called and returns    *)
(* its promise                                                             *)
FetchWeatherForLocation(location, env, enableRetry) ==
  /\ call.op = "none"
  /\ Len(inFlight) < MaxInFlight
  /\ inFlight' = Append(inFlight, started("fetchWeatherForLocation", <<location>>, env,
                                          enableRetry, weatherCache, clock))
  /\ UNCHANGED <<call, clock, weatherCache, fetched, geoVars, dialog, viewState, hash,
                 repositoryVars>>

(* fetchWeatherForLocations(locations) is called and returns its promise   *)
FetchWeatherForLocations(locations, env) ==
  /\ call.op = "none"
  /\ Len(inFlight) < MaxInFlight
  /\ inFlight' = Append(inFlight, started("fetchWeatherForLocations", locations, env,
                                          Undefined, weatherCache, clock))
  /\ UNCHANGED <<call, clock, weatherCache, fetched, geoVars, dialog, viewState, hash,
                 repositoryVars>>

(* The request for the k-th location of the c-th waiting call is answered  *)
(* while the clock reads later at most: the snapshot is cached, and when   *)
(* it was the last request the call waited for, the call settles in the    *)
(* same turn                                                               *)
AnswerRequest(c, k, responses, later) ==
  /\ call.op = "none"
  /\ ~SettlementQueued
  /\ c \in 1..Len(inFlight)
  /\ k \in inFlight[c].pending
  /\ clock <= later
  /\ later <= MaxWeatherClock
  /\ LET id == inFlight[c].locations[k].id
         step == answered(inFlight[c], k, weatherCache, responses, clock, later)
         read == IF step.result # Null THEN later ELSE clock
     IN /\ weatherCache' = step.weatherCache
        /\ fetched' = IF step.result # Null
                      THEN [fetched EXCEPT ![id] =
                              [any |-> TRUE, at |-> later, data |-> step.result]]
                      ELSE fetched
        /\ clock' = read
        /\ IF step.call.pending = {}
           THEN /\ call' = settled(step.call, step.weatherCache, read, responses)
                /\ inFlight' = remove(inFlight, c)
           ELSE /\ call' = call
                /\ inFlight' = [inFlight EXCEPT ![c] = step.call]
  /\ UNCHANGED <<geoVars, dialog, viewState, hash, repositoryVars>>

(* The continuation of a call that waits for no request runs: it settles   *)
SettleFetch(c) ==
  /\ call.op = "none"
  /\ c \in 1..Len(inFlight)
  /\ inFlight[c].pending = {}
  /\ call' = settled(inFlight[c], weatherCache, clock, <<>>)
  /\ inFlight' = remove(inFlight, c)
  /\ UNCHANGED <<clock, weatherCache, fetched, geoVars, dialog, viewState, hash,
                 repositoryVars>>

(* The function returned by withRetry(fn, maxRetries) is called and        *)
(* settles                                                                 *)
WithRetry(outcomes, maxRetries) ==
  /\ call.op = "none"
  /\ call' = [op |-> "withRetry", outcomes |-> outcomes, maxRetries |-> maxRetries,
              out |-> withRetry(outcomes, maxRetries)]
  /\ UNCHANGED <<clock, weatherVars, geoVars, dialog, viewState, hash, repositoryVars>>

GetCachedWeather(locationId) ==
  /\ call.op = "none"
  /\ LET out == getCachedWeather(weatherCache, locationId, clock)
     IN /\ weatherCache' = out.weatherCache
        /\ call' = [op |-> "getCachedWeather", locationId |-> locationId,
                    at |-> clock, known |-> fetched[locationId], out |-> out,
                    before |-> [weatherCache |-> weatherCache]]
  /\ UNCHANGED <<clock, fetched, inFlight, geoVars, dialog, viewState, hash, repositoryVars>>

GetStaleCache(locationId) ==
  /\ call.op = "none"
  /\ LET out == getStaleCache(weatherCache, locationId)
     IN /\ weatherCache' = out.weatherCache
        /\ call' = [op |-> "getStaleCache", locationId |-> locationId,
                    at |-> clock, known |-> fetched[locationId], out |-> out,
                    before |-> [weatherCache |-> weatherCache]]
  /\ UNCHANGED <<clock, fetched, inFlight, geoVars, dialog, viewState, hash, repositoryVars>>

(* clearWeatherCache() *)
ClearWeatherCache ==
  /\ call.op = "none"
  /\ weatherCache # [i \in WeatherIds |-> Undefined]
  /\ weatherCache' = [i \in WeatherIds |-> Undefined]
  /\ fetched' = [i \in WeatherIds |-> [any |-> FALSE]]
  /\ call' = [op |-> "clearWeatherCache", at |-> clock,
              before |-> [weatherCache |-> weatherCache]]
  /\ UNCHANGED <<clock, inFlight, geoVars, dialog, viewState, hash, repositoryVars>>

NextWeather ==
  \/ \E n \in 1..Cardinality(WeatherIds), e \in ApiKeys, b \in {Bool(TRUE), Bool(FALSE)} : FetchWeatherForLocation(WeatherLocation(n), e, b)
  \/ \E l \in Batches, e \in ApiKeys : FetchWeatherForLocations(l, e)
  \/ \E c \in 1..MaxInFlight, k \in 1..Cardinality(WeatherIds), r \in Answers, d \in {0} \cup WeatherClockSteps : AnswerRequest(c, k, r, clock + d)
  \/ \E c \in 1..MaxInFlight : SettleFetch(c)
  \/ \E i \in WeatherIds : GetCachedWeather(i)
  \/ \E i \in WeatherIds : GetStaleCache(i)
  \/ ClearWeatherCache
  \/ \E d \in WeatherClockSteps : AdvanceClock(d, MaxWeatherClock)
  \/ ReturnView

SpecWeather == InitView /\ [][NextWeather]_vars

(* An object that is handed over as a location and has no coordinates *)
WithoutCoordinates == [id |-> randomUUID(1), name |-> Str(<<"a", "1">>)]

(* The retry wrapper, and the fetch of one location that is made through   *)
(* it                                                                      *)
NextRetry ==
  \/ \E o \in Outcomes, n \in 0..MaxRetries : WithRetry(o, n)
  \/ \E l \in { WeatherLocation(n) : n \in 1..Cardinality(WeatherIds) } \cup { WithoutCoordinates }, e \in ApiKeys, b \in {Bool(TRUE), Bool(FALSE)} : FetchWeatherForLocation(l, e, b)
  \/ \E c \in 1..MaxInFlight, r \in Answers, d \in {0} \cup WeatherClockSteps : AnswerRequest(c, 1, r, clock + d)
  \/ \E c \in 1..MaxInFlight : SettleFetch(c)
  \/ ReturnView

SpecRetry == InitView /\ [][NextRetry]_vars

----------------------------------------------------------------------------
(* What the properties below speak about *)

(* getLocations(user) on a durable store that works, now and before the    *)
(* call that has just returned                                             *)
Stored(userEmail) == getLocations(durable, memory, userEmail, FALSE)

StoredBefore(userEmail) ==
  getLocations(last.before.durable, last.before.memory, userEmail, FALSE)

Returned(op) == last.op = op

Succeeded == last.result.success

(* The name lower-cased and trimmed *)
NormalizedName(name) == trim(toLowerCase(name.v))

IsNonBlankString(x) == ~IsObject(x) /\ x.t = "string" /\ trim(x.v) # <<>>

IsNumberWithin(x, low, high) ==
  /\ ~IsObject(x)
  /\ \/ x.t = "number" /\ low <= x.v /\ x.v <= high
     \/ x.t = "negzero" /\ low <= 0 /\ 0 <= high

(* A candidate that meets the rules of the data model *)
ValidCandidate(c) ==
  /\ IsObject(c)
  /\ DOMAIN c = {"name", "coordinates", "query"}
  /\ IsNonBlankString(c.name)
  /\ IsObject(c.coordinates)
  /\ DOMAIN c.coordinates = {"latitude", "longitude"}
  /\ IsNumberWithin(c.coordinates.latitude, -90, 90)
  /\ IsNumberWithin(c.coordinates.longitude, -180, 180)
  /\ ~IsObject(c.query) /\ c.query.t = "string" /\ c.query.v # <<>>

HoldsNormalizedName(locations, name) ==
  \E i \in 1..Len(locations) : NormalizedName(locations[i].name) = NormalizedName(name)

IndexOfId(locations, id) ==
  CHOOSE i \in 1..Len(locations) : locations[i].id = id

HasId(locations, id) == \E i \in 1..Len(locations) : locations[i].id = id

----------------------------------------------------------------------------
(* C1: with a durable store that never fails, whatever saveLocation,       *)
(* updateLocation and deleteLocation calls were made from the empty        *)
(* collection, no two locations of a user have the same normalized name.   *)
C1_UniqueNormalizedNames ==
  \A e \in Emails :
    \A i, j \in 1..Len(Stored(e)) :
      i # j => NormalizedName(Stored(e)[i].name) # NormalizedName(Stored(e)[j].name)

(* Three locations are stored, and the last call was a successful rename *)
C1_Witness ==
  /\ Returned("update") /\ Succeeded
  /\ "name" \in DOMAIN last.input.updates
  /\ Len(Stored(last.userEmail)) = 3

(* C2 as stated: whenever the collection holds a location with the         *)
(* candidate's normalized name, saveLocation fails with a message          *)
(* containing "already" and leaves the collection as it was.               *)
C2_AsStated ==
  ( /\ Returned("save")
    /\ IsNonBlankString(Get(last.input, "name"))
    /\ HoldsNormalizedName(StoredBefore(last.userEmail), last.input.name) )
  => /\ ~Succeeded
     /\ Contains(last.result.error, "already")
     /\ Stored(last.userEmail) = StoredBefore(last.userEmail)

(* C2 amended: the same for a candidate that passes validation (an invalid *)
(* candidate is rejected for its validation errors before the duplicate    *)
(* check is made).                                                         *)
C2_DuplicateRejected ==
  ( /\ Returned("save")
    /\ ValidCandidate(last.input)
    /\ HoldsNormalizedName(StoredBefore(last.userEmail), last.input.name) )
  => /\ ~Succeeded
     /\ Contains(last.result.error, "already")
     /\ Stored(last.userEmail) = StoredBefore(last.userEmail)
     /\ durable = last.before.durable

(* A valid candidate whose name differs from a stored one in case and      *)
(* surrounding whitespace only has been refused                            *)
C2_Witness ==
  /\ Returned("save")
  /\ ValidCandidate(last.input)
  /\ HoldsNormalizedName(StoredBefore(last.userEmail), last.input.name)
  /\ \A i \in 1..Len(StoredBefore(last.userEmail)) :
       StoredBefore(last.userEmail)[i].name # last.input.name
  /\ ~Succeeded

(* C3: saving a valid candidate into an empty collection succeeds, the     *)
(* collection then holds exactly one entry with the candidate's name,      *)
(* coordinates and query, and the envelope stored under                    *)
(* weatherAppLocations_<email> has version 1.                              *)
C3_SaveThenList ==
  ( /\ Returned("save")
    /\ ValidCandidate(last.input)
    /\ StoredBefore(last.userEmail) = <<>> )
  => /\ Succeeded
     /\ Len(Stored(last.userEmail)) = 1
     /\ LET entry == Stored(last.userEmail)[1]
        IN /\ entry.name = last.input.name
           /\ StrictEquals(entry.coordinates.latitude, last.input.coordinates.latitude)
           /\ StrictEquals(entry.coordinates.longitude, last.input.coordinates.longitude)
           /\ entry.query = last.input.query
     /\ durable["weatherAppLocations_" \o last.userEmail].version = Num(1)

(* A candidate with longitude -0 has been saved into an empty collection *)
C3_Witness ==
  /\ Returned("save") /\ Succeeded
  /\ ValidCandidate(last.input)
  /\ last.input.coordinates.longitude = NegZero
  /\ StoredBefore(last.userEmail) = <<>>

(* C4: a successful updateLocation leaves the stored record's id,          *)
(* coordinates and addedAt as they were, also when partialFields supplies  *)
(* them.                                                                   *)
C4_ImmutableFieldsKept ==
  (Returned("update") /\ Succeeded)
  => LET before == StoredBefore(last.userEmail)
         after == Stored(last.userEmail)
         index == IndexOfId(before, last.input.locationId)
     IN /\ HasId(before, last.input.locationId)
        /\ Len(after) = Len(before)
        /\ after[index].id = before[index].id
        /\ after[index].coordinates = before[index].coordinates
        /\ after[index].addedAt = before[index].addedAt

(* An update that supplies id, coordinates and addedAt has succeeded, at a *)
(* time later than the record's creation                                   *)
C4_Witness ==
  /\ Returned("update") /\ Succeeded
  /\ {"id", "coordinates", "addedAt"} \subseteq DOMAIN last.input.updates
  /\ LET before == StoredBefore(last.userEmail)
     IN before[IndexOfId(before, last.input.locationId)].addedAt # toISOString(last.time)

(* C5 as stated: after updateLocation(email, id, {name: newName}) the      *)
(* stored name is newName with surrounding whitespace removed.             *)
C5_AsStated ==
  ( /\ Returned("update") /\ Succeeded
    /\ IsObject(last.input.updates)
    /\ DOMAIN last.input.updates = {"name"} )
  => LET after == Stored(last.userEmail)
     IN after[IndexOfId(after, last.input.locationId)].name
          = Str(trim(last.input.updates.name.v))

(* C5 amended: after a successful updateLocation(email, id, {name:         *)
(* newName}) the stored name is newName exactly as it was passed;          *)
(* updateLocation removes no whitespace (its callers trim).                *)
C5_NameStoredAsPassed ==
  ( /\ Returned("update") /\ Succeeded
    /\ IsObject(last.input.updates)
    /\ DOMAIN last.input.updates = {"name"} )
  => LET after == Stored(last.userEmail)
     IN /\ HasId(after, last.input.locationId)
        /\ after[IndexOfId(after, last.input.locationId)].name
             = last.input.updates.name

(* A record has been renamed to a name with surrounding whitespace *)
C5_Witness ==
  /\ Returned("update") /\ Succeeded
  /\ IsObject(last.input.updates)
  /\ DOMAIN last.input.updates = {"name"}
  /\ trim(last.input.updates.name.v) # last.input.updates.name.v
  /\ LET before == StoredBefore(last.userEmail)
     IN before[IndexOfId(before, last.input.locationId)].name # last.input.updates.name

(* C6: an edit changes the name only: after a successful updateLocation    *)
(* every field of the stored record other than name and updatedAt (query   *)
(* in particular) is as it was before, whatever partialFields contains.    *)
C6_OnlyNameEditable ==
  (Returned("update") /\ Succeeded)
  => LET before == StoredBefore(last.userEmail)
         after == Stored(last.userEmail)
         index == IndexOfId(before, last.input.locationId)
     IN /\ DOMAIN after[index] = DOMAIN before[index]
        /\ \A k \in DOMAIN before[index] \ {"name", "updatedAt"} :
             after[index][k] = before[index][k]

(* The records that do not have the id, in their order *)
RECURSIVE Others(_, _)
Others(locations, id) ==
  IF locations = <<>> THEN <<>>
  ELSE IF Head(locations).id = id THEN Others(Tail(locations), id)
  ELSE <<Head(locations)>> \o Others(Tail(locations), id)

(* C7: deleteLocation with the id of one of the N stored records succeeds, *)
(* and the collection is then the other N-1 records in their former order. *)
C7_DeleteRemovesOne ==
  ( /\ Returned("delete")
    /\ HasId(StoredBefore(last.userEmail), last.input.locationId) )
  => /\ Succeeded
     /\ Len(Stored(last.userEmail)) = Len(StoredBefore(last.userEmail)) - 1
     /\ ~HasId(Stored(last.userEmail), last.input.locationId)
     /\ Stored(last.userEmail) = Others(StoredBefore(last.userEmail), last.input.locationId)

(* The first of three stored records has been deleted *)
C7_Witness ==
  /\ Returned("delete") /\ Succeeded
  /\ Len(StoredBefore(last.userEmail)) = 3
  /\ StoredBefore(last.userEmail)[1].id = last.input.locationId

(* C8: updateLocation and deleteLocation called with an id that no record  *)
(* of the collection has return success=false with the not-found error     *)
(* and leave the collection as it was.                                     *)
C8_UnknownIdRejected ==
  ( /\ (Returned("update") \/ Returned("delete"))
    /\ ~HasId(StoredBefore(last.userEmail), last.input.locationId) )
  => /\ ~Succeeded
     /\ last.result.error = <<"Location", "not", "found">>
     /\ Stored(last.userEmail) = StoredBefore(last.userEmail)
     /\ durable = last.before.durable

(* updateLocation has been called with an unknown id on a collection that  *)
(* holds records                                                           *)
C8_Witness ==
  /\ Returned("update")
  /\ StoredBefore(last.userEmail) # <<>>
  /\ ~HasId(StoredBefore(last.userEmail), last.input.locationId)
  /\ ~Succeeded

(* What validateLocation looks at in the record merged from the stored     *)
(* record and the updates                                                  *)
RenameOf(before, index) ==
  [name |-> Get(last.input.updates, "name"),
   coordinates |-> before[index].coordinates,
   query |-> IF "query" \in DOMAIN last.input.updates
             THEN last.input.updates.query ELSE before[index].query]

(* What a rename is checked against: its outcome by the record's own       *)
(* normalized name and those of the other records                          *)
RenameChecked ==
  LET before == StoredBefore(last.userEmail)
      index == IndexOfId(before, last.input.locationId)
      newName == last.input.updates.name
      ownName == NormalizedName(newName) = NormalizedName(before[index].name)
      othersName == \E i \in 1..Len(before) :
                      i # index /\ NormalizedName(before[i].name) = NormalizedName(newName)
  IN /\ (ownName /\ ~othersName) => Succeeded
     /\ othersName =>
          /\ ~Succeeded
          /\ \E i \in 1..(Len(last.result.error) - 1) :
               last.result.error[i] = "already" /\ last.result.error[i + 1] = "exists"
          /\ Stored(last.userEmail) = before
          /\ durable = last.before.durable

(* C9 as stated: updateLocation checks the new name against the other      *)
(* records only: every rename of a stored record to a name that            *)
(* normalizes to the record's own normalized name succeeds, and every      *)
(* rename to a name that normalizes to another record's fails with a       *)
(* message containing "already exists" and changes nothing.                *)
C9_AsStated ==
  ( /\ Returned("update")
    /\ HasId(StoredBefore(last.userEmail), last.input.locationId)
    /\ IsObject(last.input.updates)
    /\ "name" \in DOMAIN last.input.updates
    /\ ~IsObject(last.input.updates.name)
    /\ last.input.updates.name.t = "string" )
  => RenameChecked

(* C9, for renames whose merged record passes validation: updateLocation   *)
(* checks the new name against the other records only: a rename to a name  *)
(* that normalizes to the record's own normalized name succeeds, a rename  *)
(* to a name that normalizes to another record's fails with a message      *)
(* containing "already exists" and changes nothing.                        *)
C9_UniquenessAgainstOthers ==
  ( /\ Returned("update")
    /\ HasId(StoredBefore(last.userEmail), last.input.locationId)
    /\ IsObject(last.input.updates)
    /\ ValidCandidate(RenameOf(StoredBefore(last.userEmail),
                               IndexOfId(StoredBefore(last.userEmail),
                                         last.input.locationId))) )
  => RenameChecked

(* A record has been renamed to a differently written name with its own    *)
(* normalized name while another record is stored beside it                *)
C9_Witness ==
  /\ Returned("update") /\ Succeeded
  /\ IsObject(last.input.updates) /\ "name" \in DOMAIN last.input.updates
  /\ LET before == StoredBefore(last.userEmail)
         index == IndexOfId(before, last.input.locationId)
     IN /\ Len(before) >= 2
        /\ before[index].name # last.input.updates.name
        /\ NormalizedName(before[index].name) = NormalizedName(last.input.updates.name)

(* A rename to the normalized name of another record has been refused *)
C9_WitnessRefused ==
  /\ Returned("update") /\ ~Succeeded
  /\ Contains(last.result.error, "already")

(* C10: when the durable write fails for any reason, quota exhaustion      *)
(* included, saveToStorage does not throw, puts the value into the         *)
(* fallback map under the same key, and the calling operation reports      *)
(* success.                                                                *)
C10_FallbackOnWriteFailure ==
  ( /\ last.op \in {"save", "update", "delete"}
    /\ last.putCalled
    /\ last.setItemError # Undefined )
  => /\ ~last.putThrew
     /\ memory[getStorageKey(last.userEmail)] = last.putValue
     /\ Succeeded

(* C11: a value that saveToStorage put into the fallback map because the   *)
(* durable write failed is what getFromStorage of that key returns          *)
(* afterwards, whether the durable read fails or works.                    *)
C11_FallbackValueRetrievable ==
  ( /\ last.op \in {"save", "update", "delete"}
    /\ last.putCalled
    /\ last.setItemError # Undefined
    /\ ~last.putThrew )
  => \A readFails \in BOOLEAN :
       getFromStorage(durable, memory, getStorageKey(last.userEmail), readFails)
         = last.putValue

(* getLocations(user) while the durable read throws, now and before the    *)
(* call that has just returned                                             *)
Listed(userEmail) == getLocations(durable, memory, userEmail, TRUE)

ListedBefore(userEmail) ==
  getLocations(last.before.durable, last.before.memory, userEmail, TRUE)

(* C12: while every durable read and every durable write throws a generic  *)
(* error, saveLocation of a valid location whose normalized name is not    *)
(* yet listed returns success, and the getLocations that follows returns   *)
(* the list it returned before with the saved location appended.           *)
C12_SaveWhenUnavailable ==
  ( /\ Returned("save")
    /\ last.existsReadFails /\ last.listReadFails
    /\ last.setItemError = SecurityError
    /\ ValidCandidate(last.input)
    /\ ~HoldsNormalizedName(ListedBefore(last.userEmail), last.input.name) )
  => /\ Succeeded
     /\ Listed(last.userEmail)
          = Append(ListedBefore(last.userEmail), last.result.location)
     /\ last.result.location.name = last.input.name
     /\ last.result.location.coordinates = last.input.coordinates
     /\ last.result.location.query = last.input.query

(* A second valid location has been saved while the durable store threw on *)
(* every read and write                                                    *)
C12_Witness ==
  /\ Returned("save") /\ Succeeded
  /\ last.existsReadFails /\ last.listReadFails
  /\ last.setItemError = SecurityError
  /\ ValidCandidate(last.input)
  /\ Len(ListedBefore(last.userEmail)) = 1
  /\ durable = [k \in Keys |-> Null]

(* The item stored for the user before the call that has just returned *)
ItemBefore(userEmail) == last.before.durable[getStorageKey(userEmail)]

HasLocationsSequence(item) ==
  /\ IsObject(item)
  /\ "locations" \in DOMAIN item
  /\ ~IsObject(item.locations) /\ item.locations.t = "array"

(* C13: getLocations returns the empty sequence when nothing is stored     *)
(* under the user's key, or the stored payload has no locations field or   *)
(* one that is not a sequence; otherwise it returns the stored locations   *)
(* in storage order.                                                       *)
C13_ListOrEmpty ==
  Returned("list")
  => LET item == ItemBefore(last.userEmail)
     IN /\ ~last.putThrew
        /\ last.result = IF HasLocationsSequence(item) THEN item.locations
                         ELSE Arr(<<>>)

(* getLocations has returned while the stored payload had a locations      *)
(* field that is a string                                                  *)
C13_Witness ==
  /\ Returned("list")
  /\ LET item == ItemBefore(last.userEmail)
     IN /\ IsObject(item) /\ "locations" \in DOMAIN item
        /\ item.locations = Str(<<"x">>)
  /\ last.result = Arr(<<>>)

(* C14: with a durable store that works and calls that run one after the   *)
(* other, whichever caller issues them, no update is lost: every call      *)
(* finds the collection as the call before it left it and changes it by    *)
(* its own effect only.  A successful save appends its location to the     *)
(* records already there, a successful update replaces the one record      *)
(* with its id, a successful delete removes that one record, a refused     *)
(* call changes nothing, and the collections of other users stay as they   *)
(* were.                                                                   *)
C14_NoLostUpdate ==
  last.op \in {"save", "update", "delete"}
  => LET before == StoredBefore(last.userEmail)
         after == Stored(last.userEmail)
     IN /\ \A e \in Emails \ {last.userEmail} :
             durable[getStorageKey(e)] = last.before.durable[getStorageKey(e)]
        /\ IF ~Succeeded THEN after = before
           ELSE CASE last.op = "save" ->
                       after = Append(before, JSONRoundTrip(last.result.location))
                  [] last.op = "update" ->
                       /\ HasId(before, last.input.locationId)
                       /\ after = [before EXCEPT
                                     ![IndexOfId(before, last.input.locationId)] =
                                       JSONRoundTrip(last.result.location)]
                  [] last.op = "delete" ->
                       /\ HasId(before, last.input.locationId)
                       /\ after = Others(before, last.input.locationId)

(* The first of three records has been renamed after the two others were   *)
(* saved, and those two are still stored behind it                         *)
C14_Witness ==
  /\ Returned("update") /\ Succeeded
  /\ Len(StoredBefore(last.userEmail)) = 3
  /\ StoredBefore(last.userEmail)[1].id = last.input.locationId
  /\ Stored(last.userEmail)[1].name # StoredBefore(last.userEmail)[1].name
  /\ Stored(last.userEmail)[2] = StoredBefore(last.userEmail)[2]
  /\ Stored(last.userEmail)[3] = StoredBefore(last.userEmail)[3]

----------------------------------------------------------------------------
(* The view operation that has just returned *)

Called(op) == call.op = op

FlagOn(ldClient) == ldClient # Null /\ ldClient.variation = Bool(TRUE)

IsNonEmptyString(x) == ~IsObject(x) /\ x.t = "string" /\ x.v # <<>>

FragmentOf(id) == Str(<<"#location/">> \o id.v)

(* C15: for every user, location count and flag source, determineView      *)
(* returns "list" exactly when the save-locations flag evaluates to true    *)
(* (a missing flag source counts as false), the user is not anonymous and   *)
(* locationCount >= 2, and "detail" in every other case.                    *)
C15_ListExactlyWhen ==
  Called("determineView")
  => IF /\ FlagOn(call.input.ldClient)
        /\ call.input.user.isAnonymous = Bool(FALSE)
        /\ call.input.locationCount >= 2
     THEN call.result = "list"
     ELSE call.result = "detail"

(* determineView has answered "list" for a named user with two locations   *)
(* and the flag on                                                         *)
C15_Witness ==
  /\ Called("determineView")
  /\ FlagOn(call.input.ldClient)
  /\ call.input.user.isAnonymous = Bool(FALSE)
  /\ call.input.locationCount = 2
  /\ call.result = "list"

(* C16: shouldShowBackButton is true exactly when currentView is "detail"   *)
(* and locationCount >= 2; in "list" view it is false for every count.      *)
C16_BackButtonExactlyWhen ==
  Called("shouldShowBackButton")
  => /\ call.result = (call.input.currentView = "detail" /\ call.input.locationCount >= 2)
     /\ call.input.currentView = "list" => ~call.result

(* shouldShowBackButton has answered false for the detail view with one    *)
(* location                                                                *)
C16_Witness ==
  /\ Called("shouldShowBackButton")
  /\ call.input.currentView = "detail"
  /\ call.input.locationCount = 1
  /\ ~call.result

(* The state handleCardClick(id) leaves when called in the list view *)
AfterCardClick(vs, h, id) ==
  /\ vs.currentView = "detail"
  /\ vs.selectedLocationId = id
  /\ h = FragmentOf(id)

(* C17: in the list view handleCardClick(id) with a non-empty id leaves     *)
(* currentView "detail", selectedLocationId id and the fragment             *)
(* #location/<id>; handleBackNavigation called in that state leaves         *)
(* currentView "list", no selected location and the fragment #locations.    *)
C17_CardClickThenBack ==
  /\ ( /\ Called("handleCardClick")
       /\ call.before.viewState.currentView = "list"
       /\ IsNonEmptyString(call.input.locationId) )
     => AfterCardClick(viewState, hash, call.input.locationId)
  /\ ( /\ Called("handleBackNavigation")
       /\ \E id \in CardIds :
            /\ IsNonEmptyString(id)
            /\ AfterCardClick(call.before.viewState, call.before.hash, id) )
     => /\ viewState.currentView = "list"
        /\ viewState.selectedLocationId = Null
        /\ hash = Str(<<"#locations">>)
        /\ viewState.user = call.before.viewState.user

(* handleBackNavigation has returned from the state a card click left *)
C17_Witness ==
  /\ Called("handleBackNavigation")
  /\ AfterCardClick(call.before.viewState, call.before.hash, randomUUID(2))
  /\ viewState.currentView = "list"

(* C18: handleCardClick changes nothing (view state, fragment, render       *)
(* callback not called) when currentView is not "list", and                 *)
(* handleBackNavigation changes nothing when currentView is not "detail".   *)
C18_NoEffectInOtherView ==
  ( \/ Called("handleCardClick") /\ call.before.viewState.currentView # "list"
    \/ Called("handleBackNavigation") /\ call.before.viewState.currentView # "detail" )
  => /\ viewState = call.before.viewState
     /\ hash = call.before.hash
     /\ call.out.rendered = <<>>
     /\ call.out.announced = <<>>

(* handleCardClick has been called with an id and a render callback while   *)
(* the detail view of another location was shown                            *)
C18_Witness ==
  /\ Called("handleCardClick")
  /\ call.before.viewState.currentView = "detail"
  /\ call.before.viewState.selectedLocationId = randomUUID(1)
  /\ call.input.locationId = randomUUID(2)
  /\ call.input.renderCallback = Function

(* C19: after a popstate event has been handled, currentView and            *)
(* selectedLocationId match the fragment shown: #locations gives the list   *)
(* view and no selected location, #location/<id> gives the detail view of   *)
(* <id>, whatever the view state was before the event.                      *)
C19_StateMatchesFragment ==
  Called("popstate")
  => /\ hash = call.input.fragment
     /\ hash = Str(<<"#locations">>)
          => viewState.currentView = "list" /\ viewState.selectedLocationId = Null
     /\ \A id \in CardIds :
          (~IsObject(id) /\ id.t = "string" /\ hash = FragmentOf(id))
          => viewState.currentView = "detail" /\ viewState.selectedLocationId = id

(* A popstate event showing #location/<id> has been handled while the list  *)
(* view was shown                                                           *)
C19_Witness ==
  /\ Called("popstate")
  /\ call.before.viewState.currentView = "list"
  /\ hash = FragmentOf(randomUUID(2))
  /\ viewState.selectedLocationId = randomUUID(2)

(* C20: whenever ViewState.user.isAnonymous is true, currentView is         *)
(* "detail", in every state reached through setUserContext, the            *)
(* transitions, card click, back navigation, history navigation,           *)
(* handleLogin, handleLogout and reset.                                     *)
C20_AnonymousSeesDetail ==
  viewState.user.isAnonymous => viewState.currentView = "detail"

(* C21: from any reachable state handleLogout leaves every stored          *)
(* collection as it was, leaves the view state equal to the initial one     *)
(* (detail view, no selected location, user without email and anonymous)   *)
(* with the fragment cleared, calls onLogoutComplete once if it was         *)
(* supplied, and returns success.                                           *)
C21_LogoutResetsViewOnly ==
  Called("handleLogout")
  => /\ durable = call.before.durable
     /\ memory = call.before.memory
     /\ viewState = [currentView |-> "detail", selectedLocationId |-> Null,
                     user |-> [email |-> Null, isAnonymous |-> TRUE]]
     /\ hash = Str(<<>>)
     /\ call.out.rendered = IF call.input.onLogoutComplete = Function
                            THEN << <<>> >> ELSE <<>>
     /\ ~call.out.threw
     /\ call.out.result.success

(* A named user with two stored locations has signed out of the list view   *)
(* with a callback                                                          *)
C21_Witness ==
  /\ Called("handleLogout")
  /\ call.before.viewState.currentView = "list"
  /\ ~call.before.viewState.user.isAnonymous
  /\ call.before.hash = Str(<<"#locations">>)
  /\ call.input.onLogoutComplete = Function
  /\ Len(getLocations(durable, memory, "u@x", FALSE)) = 2

(* An identity that is not null, not flagged anonymous and carries a        *)
(* non-empty email                                                          *)
NamedIdentity(x) ==
  /\ IsObject(x)
  /\ "email" \in DOMAIN x /\ IsNonEmptyString(x.email)
  /\ "anonymous" \in DOMAIN x => x.anonymous = Bool(FALSE)

FlagValue(ldClient) == IF ldClient = Null THEN Bool(FALSE) ELSE ldClient.variation

(* C22: for a named identity handleLogin sets ViewState.user to the         *)
(* identity's email and isAnonymous false, and returns success with the     *)
(* locations getLocations returns for that email, the view "list" exactly   *)
(* when the flag is on and at least two locations are stored, and           *)
(* canSaveLocations equal to the flag value; onLoginComplete, if supplied,  *)
(* is called once with the same locations, view and canSaveLocations.       *)
C22_LoginLoadsLocations ==
  (Called("handleLogin") /\ NamedIdentity(call.input.context))
  => LET locations == getLocations(call.before.durable, call.before.memory,
                                   call.input.context.email.v[1], FALSE)
         view == IF FlagOn(call.input.ldClient) /\ Len(locations) >= 2
                 THEN "list" ELSE "detail"
         bundle == [locations |-> Arr(locations), view |-> view,
                    canSaveLocations |-> FlagValue(call.input.ldClient)]
     IN /\ ~call.out.threw
        /\ viewState.user = [email |-> call.input.context.email, isAnonymous |-> FALSE]
        /\ call.out.result = [success |-> TRUE, locations |-> Arr(locations),
                              view |-> view,
                              canSaveLocations |-> FlagValue(call.input.ldClient)]
        /\ call.out.rendered = IF call.input.onLoginComplete = Function
                               THEN << <<bundle>> >> ELSE <<>>

(* The user with two stored locations has signed in with the flag on and a  *)
(* callback                                                                 *)
C22_Witness ==
  /\ Called("handleLogin")
  /\ NamedIdentity(call.input.context)
  /\ FlagOn(call.input.ldClient)
  /\ call.input.onLoginComplete = Function
  /\ call.out.result.view = "list"
  /\ Len(call.out.result.locations.v) = 2

(* C23: handleLogin called with an anonymous identity (null, flagged        *)
(* anonymous, or without a non-empty email) returns success false with an   *)
(* error, does not call onLoginComplete, and leaves the view state, the     *)
(* fragment and the stores as they were.                                    *)
C23_AnonymousLoginRefused ==
  (Called("handleLogin") /\ ~NamedIdentity(call.input.context))
  => /\ ~call.out.threw
     /\ call.out.result.success = FALSE
     /\ "error" \in DOMAIN call.out.result
     /\ call.out.rendered = <<>>
     /\ viewState = call.before.viewState
     /\ hash = call.before.hash
     /\ durable = call.before.durable
     /\ memory = call.before.memory

(* C24: shouldShowLocationManagementUI is true exactly when the identity    *)
(* is named (not null, not flagged anonymous, with a non-empty email) and   *)
(* the save-locations flag evaluates to true; it is false for every         *)
(* anonymous identity whatever the flag, and false for every identity       *)
(* when the flag is off or the flag source is missing.                      *)
C24_ManagementUIExactlyWhen ==
  Called("shouldShowLocationManagementUI")
  => /\ call.result = (NamedIdentity(call.input.context) /\ FlagOn(call.input.ldClient))
     /\ ~NamedIdentity(call.input.context) => call.result = FALSE
     /\ ~FlagOn(call.input.ldClient) => call.result = FALSE

(* shouldShowLocationManagementUI has answered false for an identity        *)
(* flagged anonymous that carries an email, with the flag on                *)
C24_Witness ==
  /\ Called("shouldShowLocationManagementUI")
  /\ call.input.context = [email |-> Str(<<"u@x">>), anonymous |-> Bool(TRUE)]
  /\ FlagOn(call.input.ldClient)
  /\ call.result = FALSE

----------------------------------------------------------------------------
(* The handler step that has just returned *)

HandlerSteps ==
  {"handleSaveLocation", "showEditLocationForm", "handleEditLocationSubmit",
   "cancelEdit", "handleDeleteLocation", "confirm", "cancel"}

StoresAsBefore == durable = call.before.durable /\ memory = call.before.memory

(* The calls a callback given as a function receives *)
CalledOnceWith(callback, args) == IF callback = Function THEN <<args>> ELSE <<>>

(* C25: every location management operation checks the anonymous status    *)
(* of the user and is rejected when the user is anonymous: no call of the  *)
(* save, edit and delete handlers made while the identity is anonymous     *)
(* changes a stored collection.                                            *)
C25_AnonymousNeverChangesStore ==
  (call.op \in HandlerSteps /\ ~NamedIdentity(call.input.context))
  => StoresAsBefore

(* The ids of the records the two stores hold under the key of an email *)
HeldIds(dur, mem, e) == storedIds(dur[getStorageKey(e)]) \cup storedIds(mem[getStorageKey(e)])

(* C26: handleDeleteLocation never deletes before confirmation: showing    *)
(* the dialog leaves the stored collection unchanged, and until the Delete *)
(* button of a dialog is clicked no handler step takes a location out of a *)
(* collection; on cancel the collection stays unchanged and onSuccess is   *)
(* not called; on confirm deleteLocation runs exactly once, and then       *)
(* onSuccess is invoked if it succeeded, or onError with the error if it   *)
(* failed.                                                                 *)
C26_DeleteOnlyAfterConfirmation ==
  /\ Called("handleDeleteLocation") => StoresAsBefore
  /\ (call.op \in HandlerSteps /\ ~Called("confirm"))
     => \A e \in Emails :
          HeldIds(call.before.durable, call.before.memory, e) \subseteq HeldIds(durable, memory, e)
  /\ Called("cancel")
     => /\ StoresAsBefore
        /\ call.out.deleteCalls = <<>>
        /\ call.out.succeeded = <<>>
  /\ Called("confirm")
     => /\ Len(call.out.deleteCalls) = 1
        /\ call.out.result.success
           => /\ call.out.succeeded = CalledOnceWith(call.input.captured.onSuccess, <<>>)
              /\ call.out.failed = <<>>
        /\ ~call.out.result.success
           => /\ call.out.failed = CalledOnceWith(call.input.captured.onError,
                                                  <<call.out.result.error>>)
              /\ call.out.succeeded = <<>>

----------------------------------------------------------------------------
(* The launch *)

SDKCalled == boot.pc \in {"sdk", "returned", "rejected"}

FiveMinutes == 5 * 60 * 1000

(* C27: whatever user data localStorage holds and whether or not           *)
(* geolocation succeeds, bootstrap calls initializeSDK exactly once, with  *)
(* a context of kind 'user' and anonymous = true that carries a location   *)
(* exactly when geolocation returned coordinates, and the context it       *)
(* returns is that same context.                                           *)
C27_AnonymousLaunch ==
  /\ boot.pc = "location" => boot.sdkCalls = <<>>
  /\ SDKCalled
     => /\ Len(boot.sdkCalls) = 1
        /\ boot.sdkCalls[1].kind = Str(<<"user">>)
        /\ boot.sdkCalls[1].anonymous = Bool(TRUE)
        /\ DOMAIN boot.sdkCalls[1] \subseteq {"kind", "anonymous", "location"}
        /\ ("location" \in DOMAIN boot.sdkCalls[1]) <=> (boot.location # Null)
        /\ boot.location # Null
           => boot.sdkCalls[1].location = [latitude |-> boot.location.latitude,
                                           longitude |-> boot.location.longitude]
  /\ boot.pc = "returned" => boot.result.context = boot.sdkCalls[1]

(* bootstrap has returned a context with the location obtained, in a       *)
(* browser that holds two locations of a named user                        *)
C27_Witness ==
  /\ boot.pc = "returned"
  /\ boot.location # Null
  /\ "location" \in DOMAIN boot.result.context
  /\ durable = EarlierSession

(* C28: during bootstrap the geolocation acquisition is complete before    *)
(* initializeSDK is called, and bootstrap reads and writes nothing in      *)
(* localStorage between its start and that call: localStorage counts as    *)
(* accessed at the call only when it did at the start or when other code   *)
(* used it in the meantime; if initializeSDK fails, bootstrap rejects with *)
(* that error and returns no client.                                       *)
C28_LocationThenSDK ==
  /\ boot.pc = "location"
     => /\ boot.sdkCalls = <<>>
        /\ ~boot.settled => "bootstrap" \in requests
  /\ SDKCalled
     => /\ ~boot.locatingAtCall
        /\ "bootstrap" \notin requests
        /\ (~boot.started.accessed /\ ~boot.started.byOthers) => ~boot.accessedAtCall
  /\ boot.pc \in {"returned", "rejected"}
     => /\ boot.sdk.ok <=> boot.pc = "returned"
        /\ ~boot.sdk.ok => boot.error = boot.sdk.error /\ boot.result = Undefined

(* bootstrap has waited for a position, then called initializeSDK, which   *)
(* failed, with localStorage untouched                                     *)
C28_Witness ==
  /\ boot.pc = "rejected"
  /\ boot.location # Null
  /\ ~boot.started.accessed
  /\ ~localStorageAccessed

(* C29: a getUserLocation call made less than 5 minutes after a successful *)
(* acquisition returns the cached coordinates without invoking the         *)
(* geolocation API; a call made 5 minutes or more after it, or after       *)
(* clearGeolocationCache, invokes the API again; a failed acquisition      *)
(* resolves to null and is never cached.                                   *)
C29_GeolocationCache ==
  /\ call.op \in {"getUserLocation", "bootstrap"}
     => /\ (call.known.any /\ call.at - call.known.at < FiveMinutes)
           => /\ call.out.settled
              /\ ~call.out.invoked
              /\ call.out.result = call.known.coords
        /\ (call.supported /\ (~call.known.any \/ call.at - call.known.at >= FiveMinutes))
           => call.out.invoked
  /\ Called("positionError")
     => /\ call.out.resolved = Null
        /\ cachedLocation = call.before.cachedLocation
        /\ cacheTimestamp = call.before.cacheTimestamp

(* getUserLocation has answered from the cache in the last millisecond of  *)
(* the five minutes                                                        *)
C29_Witness ==
  /\ Called("getUserLocation")
  /\ call.known.any
  /\ call.at - call.known.at = FiveMinutes - 1
  /\ ~call.out.invoked
  /\ call.out.result = call.known.coords

----------------------------------------------------------------------------
(* The weather cache *)

OneMinute == 60 * 1000

(* C30: getCachedWeather(id) returns the cached snapshot exactly when an   *)
(* entry for id exists and was fetched less than 60 seconds ago, and null  *)
(* otherwise; an entry older than that is not discarded by reads and is    *)
(* still returned by getStaleCache(id) until a newer fetch for id          *)
(* overwrites it or the cache is cleared.                                  *)
C30_FreshOrStale ==
  /\ Called("getCachedWeather")
     => /\ (call.known.any /\ call.at - call.known.at < OneMinute)
           => call.out.result = call.known.data
        /\ ~(call.known.any /\ call.at - call.known.at < OneMinute)
           => call.out.result = Null
        /\ weatherCache = call.before.weatherCache
  /\ Called("getStaleCache")
     => /\ call.known.any => call.out.result = call.known.data
        /\ ~call.known.any => call.out.result = Null
        /\ weatherCache = call.before.weatherCache
  /\ \A i \in WeatherIds :
       fetched[i].any => ~Falsy(weatherCache[i]) /\ weatherCache[i].data = fetched[i].data

(* getStaleCache has returned a snapshot that is a minute old, after       *)
(* getCachedWeather could have been asked for it                           *)
C30_Witness ==
  /\ Called("getStaleCache")
  /\ call.known.any
  /\ call.at - call.known.at >= OneMinute
  /\ call.out.result = call.known.data

----------------------------------------------------------------------------
(* The batch fetch and the retry wrapper *)

(* The entry that a batch is to hold for its k-th location *)
EntryExpected(k) ==
  LET id == call.locations[k].id
  IN IF call.out.values[k] # Null THEN call.out.values[k]
     ELSE IF weatherCache[id] # Undefined
          THEN [weatherCache[id].data EXCEPT !.isStale = Bool(TRUE)]
          ELSE Null

(* C31: fetchWeatherForLocations(locations) always resolves, to a map with *)
(* one entry per location: the fresh snapshot when the fetch for it        *)
(* succeeded, else the last cached snapshot marked stale when there is     *)
(* one, else null; a failure for one location does not keep the results    *)
(* of the others from being returned.                                      *)
C31_BatchAlwaysResolves ==
  Called("fetchWeatherForLocations")
  => /\ ~call.out.rejected
     /\ \A k \in 1..Len(call.locations) :
          call.out.result[call.locations[k].id] = EntryExpected(k)
     /\ \A i \in WeatherIds :
          (\A k \in 1..Len(call.locations) : call.locations[k].id # i)
          => call.out.result[i] = Undefined

(* The first of the allowed calls that returns, 0 when none does *)
FirstToReturn(outcomes, allowed) ==
  IF \E k \in 1..allowed : ~outcomes[k].threw
  THEN CHOOSE k \in 1..allowed : /\ ~outcomes[k].threw
                                 /\ \A j \in 1..(k - 1) : outcomes[j].threw
  ELSE 0

(* C32: the function returned by withRetry(fn, maxRetries, delay) calls fn *)
(* again after each failure until fn succeeds or maxRetries+1 calls have   *)
(* been made, returns the first successful result without further calls,   *)
(* and rejects with the error of the last call when all of them fail; so   *)
(* fetchWeatherForLocation with retry enabled makes 3 requests that fail   *)
(* before it gives up and returns null.                                    *)
C32_RetryUntilSuccess ==
  /\ Called("withRetry")
     => LET allowed == call.maxRetries + 1
            k == FirstToReturn(call.outcomes, allowed)
        IN IF k # 0
           THEN /\ call.out.calls = k
                /\ ~call.out.threw
                /\ call.out.result = call.outcomes[k].result
           ELSE /\ call.out.calls = allowed
                /\ call.out.threw
                /\ call.out.error = call.outcomes[allowed].error
  /\ (/\ Called("fetchWeatherForLocation")
      /\ call.enableRetry = Bool(TRUE)
      /\ Len(call.responses) = 3
      /\ \A k \in 1..3 : ~call.responses[k].ok)
     => /\ call.out.requests = 3
        /\ call.out.result = Null

----------------------------------------------------------------------------
(* The view state and the fragment *)

(* C33: in every state reached through the transitions, history            *)
(* navigation, setUserContext, handleLogin, handleLogout and reset,        *)
(* currentView = "list" implies that no location is selected.              *)
C33_ListSelectsNothing ==
  viewState.currentView = "list" => viewState.selectedLocationId = Null

(* The list view has been entered from a detail view that had a location   *)
(* selected                                                                *)
C33_Witness ==
  /\ call.op \in {"handleBackNavigation", "transitionToListView", "popstate"}
  /\ call.before.viewState.currentView = "detail"
  /\ call.before.viewState.selectedLocationId = randomUUID(1)
  /\ viewState.currentView = "list"

(* The operations that move between views, and the ids that name a         *)
(* location                                                                *)
ViewMoves ==
  {"transitionToListView", "transitionToDetailView", "handleBackNavigation",
   "handleCardClick", "popstate", "resetViewState"}

NamesALocation(id) == ~IsObject(id) /\ id.t = "string"

(* C34: after each in-app transition, reset or handled history event the   *)
(* fragment is "#locations" exactly when currentView = "list", and it is   *)
(* "#location/<id>" exactly when currentView = "detail" with               *)
(* selectedLocationId = <id>, also after a history event that lands on an  *)
(* empty fragment and after transitionToDetailView with an empty id.       *)
C34_FragmentEncodesView ==
  call.op \in ViewMoves
  => /\ hash = Str(<<"#locations">>) <=> viewState.currentView = "list"
     /\ \A id \in CardIds :
          NamesALocation(id)
          => (hash = FragmentOf(id)
              <=> viewState.currentView = "detail" /\ viewState.selectedLocationId = id)

----------------------------------------------------------------------------
(* Identifiers, users and storage failures *)

(* The ids of a collection, in its order *)
IdsOf(locations) == [i \in 1..Len(locations) |-> locations[i].id]

(* A sequence without the entries equal to x *)
Without(ids, x) == SelectSeq(ids, LAMBDA y : y # x)

(* C35: with an id generator that never repeats a value, after any         *)
(* sequence of saveLocation, updateLocation and deleteLocation calls the   *)
(* records of a user's collection have pairwise distinct ids, and the id   *)
(* of a record stays the same from its creation to its deletion.           *)
C35_IdsDistinctAndFixed ==
  /\ \A e \in Users :
       \A i, j \in 1..Len(Stored(e)) : Stored(e)[i].id = Stored(e)[j].id => i = j
  /\ last.op \in {"save", "update", "delete"}
     => LET before == IdsOf(StoredBefore(last.userEmail))
            after == IdsOf(Stored(last.userEmail))
        IN /\ ~Succeeded => after = before
           /\ (Returned("update") /\ Succeeded) => after = before
           /\ (Returned("delete") /\ Succeeded)
              => after = Without(before, last.input.locationId)
           /\ (Returned("save") /\ Succeeded)
              => /\ after = Append(before, last.result.location.id)
                 /\ \A i \in 1..Len(before) : before[i] # last.result.location.id

(* An update that asked for another id has succeeded on the second of      *)
(* three records                                                           *)
C35_Witness ==
  /\ Returned("update") /\ Succeeded
  /\ "id" \in DOMAIN last.input.updates
  /\ Len(Stored(last.userEmail)) = 3
  /\ last.input.locationId = StoredBefore(last.userEmail)[2].id

(* C36: for two different emails A and B, no saveLocation, updateLocation  *)
(* or deleteLocation call made for A, successful or failed, durable or     *)
(* fallback, changes what getLocations(B) returns.                         *)
C36_PartitionedPerUser ==
  last.op \in {"save", "update", "delete"}
  => \A b \in Emails \ {last.userEmail} : \A readFails \in BOOLEAN :
       getLocations(durable, memory, b, readFails)
         = getLocations(last.before.durable, last.before.memory, b, readFails)

(* A call for one user has changed that user's collection while the other  *)
(* user has records, durable and fallback, one of them under the same id   *)
(* or name                                                                 *)
C36_Witness ==
  /\ last.op \in {"update", "delete"}
  /\ Succeeded
  /\ \E b \in Emails \ {last.userEmail} :
       /\ Len(getLocations(durable, memory, b, FALSE)) >= 1
       /\ Len(getLocations(durable, memory, b, TRUE)) >= 1
       /\ \E i \in 1..Len(getLocations(durable, memory, b, FALSE)) :
            NormalizedName(getLocations(durable, memory, b, FALSE)[i].name)
              = NormalizedName(StoredBefore(last.userEmail)[1].name)

(* No two records of the collection carry the same normalized name *)
NamesUnique(locations) ==
  \A i, j \in 1..Len(locations) :
    NormalizedName(locations[i].name) = NormalizedName(locations[j].name) => i = j

(* C37: when durable reads and durable writes may each fail or work on     *)
(* any call, what getLocations returns never holds two records with the    *)
(* same normalized name, and saving the same valid location twice in a     *)
(* row never succeeds both times.                                          *)
C37_ConsistentUnderFailures ==
  /\ \A e \in Users : \A readFails \in BOOLEAN :
       NamesUnique(getLocations(durable, memory, e, readFails))
  /\ (Returned("saveTwice") /\ ValidCandidate(last.input))
     => ~(last.results[1].success /\ last.results[2].success)

(* The records of a durable envelope *)
RecordsOf(value) ==
  IF Falsy(value) \/ ~IsArray(Get(value, "locations")) THEN {}
  ELSE { value.locations.v[i] : i \in 1..Len(value.locations.v) }

(* C38: every record that the durable envelope holds before a saveLocation *)
(* that returns success is still in the durable envelope after it, also    *)
(* when the durable read of that save fails while its durable write works. *)
C38_SaveKeepsDurableRecords ==
  (Returned("save") /\ Succeeded)
  => RecordsOf(last.before.durable[getStorageKey(last.userEmail)])
       \subseteq RecordsOf(durable[getStorageKey(last.userEmail)])

(* C39: a saveLocation, updateLocation or deleteLocation that returns      *)
(* success=false returns a result and leaves the collection as it was,     *)
(* whatever made it fail (validation, duplicate name, unknown id, an       *)
(* error raised out of the store), also when the collection lives in the   *)
(* fallback map.                                                           *)
C39_FailureChangesNothing ==
  (last.op \in {"save", "update", "delete"} /\ ~Succeeded)
  => /\ "error" \in DOMAIN last.result
     /\ \A readFails \in BOOLEAN :
          getLocations(durable, memory, last.userEmail, readFails)
            = getLocations(last.before.durable, last.before.memory,
                           last.userEmail, readFails)

----------------------------------------------------------------------------
(* Sign-in and the view *)

(* C40: handleLogin changes only the user of the view state: currentView,  *)
(* selectedLocationId and the fragment are after the call what they were   *)
(* before it, so the view in the result of a successful login may differ   *)
(* from currentView until the caller performs a transition.                *)
C40_LoginKeepsView ==
  Called("handleLogin")
  => /\ viewState.currentView = call.before.viewState.currentView
     /\ viewState.selectedLocationId = call.before.viewState.selectedLocationId
     /\ hash = call.before.hash
     /\ \/ viewState.user = call.before.viewState.user
        \/ /\ ~call.out.threw
           /\ call.out.result.success
           /\ viewState.user = [email |-> call.input.context.email, isAnonymous |-> FALSE]

(* A login has succeeded and returned the view "list" while the detail     *)
(* view of a selected location is shown                                    *)
C40_Witness ==
  /\ Called("handleLogin")
  /\ ~call.out.threw
  /\ call.out.result.success
  /\ call.out.result.view = "list"
  /\ viewState.currentView = "detail"
  /\ viewState.selectedLocationId = randomUUID(2)
  /\ hash = FragmentOf(randomUUID(2))
  /\ viewState.user # call.before.viewState.user

====
